---- MODULE Spec2Model ----
(***************************************************************************)
(* Model of the goldenset analytics core: exact deduplication, stratified  *)
(* sampling with quota allocation, the dataset version diff, the           *)
(* statistics of a collection and the publishing of a dataset version.     *)
(*                                                                         *)
(* Strings are sequences of one-character strings, so that trimming,       *)
(* lower-casing, JSON encoding and the two string orders the code uses     *)
(* (Array.prototype.sort's UTF-16 code unit order and localeCompare's      *)
(* collation order) are computed rather than assumed.                      *)
(***************************************************************************)
EXTENDS Integers, Sequences, FiniteSets, TLC

VARIABLES
  groups,        \* allocateQuotas: Map<string, Interaction[]>
  groupKeys,     \* allocateQuotas: sorted key list
  target,        \* allocateQuotas: target
  minPerGroup,   \* allocateQuotas: minPerGroup
  allocations,   \* allocateQuotas: Map<string, number> being built
  pc,            \* allocateQuotas: the pass about to run
  interactions,  \* stratifiedSample: the array of the first call
  options,       \* stratifiedSample: SampleOptions of both calls
  reordered,     \* stratifiedSample: the same objects as passed to the second call
  firstRun,      \* stratifiedSample: what the first call computed
  secondRun,     \* stratifiedSample: what the second call computed
  calls,         \* stratifiedSample: number of calls made
  dedupeInput,   \* dedupeExact: the array passed to the first call
  dedupedOnce,   \* dedupeExact: what the first call returned
  dedupedTwice,  \* dedupeExact: what the call on that result returned
  dedupeCalls,   \* dedupeExact: number of calls made
  store,         \* diffDatasets: the version directories under datasetsDir
  diffOptions,   \* diffDatasets: DiffOptions
  diffResult,    \* diffDatasets: how the call settled
  statsInteractions,   \* computeStats: interactions
  statsDimensionKeys,  \* computeStats: dimensionKeys (empty when omitted)
  statsResult,         \* computeStats: what the call returned
  datasetsDir,   \* publishDataset: the version directories on disk
  publishCalls,  \* publishDataset: the calls made so far, with how each settled
  shuffle,       \* sampleFromGroup: the arrays, loop variables and result of one call
  live   \* the live store, the disk and the last command (command-line runs)

allocVars == <<groups, groupKeys, target, minPerGroup, allocations, pc>>

sampleVars == <<interactions, options, reordered, firstRun, secondRun, calls>>

dedupeVars == <<dedupeInput, dedupedOnce, dedupedTwice, dedupeCalls>>

diffVars == <<store, diffOptions, diffResult>>

statsVars == <<statsInteractions, statsDimensionKeys, statsResult>>

publishVars == <<datasetsDir, publishCalls>>

vars == <<allocVars, sampleVars, dedupeVars, diffVars, statsVars, publishVars, shuffle, live>>

(***************************************************************************)
(* Bounds of the model                                                     *)
(***************************************************************************)
MaxGroups == 3
MaxSize == 3
MaxTarget == 6
MaxMin == 2
MaxItems == 3
MaxN == 3
MaxDedupe == 3
MaxLines == 2
MaxStats == 3
MaxGrouped == 2
MaxPublish == 3

(***************************************************************************)
(* Generic helpers                                                         *)
(***************************************************************************)
Min2(a, b) == IF a <= b THEN a ELSE b

Max2(a, b) == IF a >= b THEN a ELSE b

Range(s) == {s[i] : i \in 1..Len(s)}

RECURSIVE SumSeq(_)
SumSeq(s) == IF s = <<>> THEN 0 ELSE Head(s) + SumSeq(Tail(s))

(***************************************************************************)
(* Strings                                                                 *)
(***************************************************************************)
\* UTF-16 code unit of each character of the model's alphabet.
CodeUnit(c) ==
  CASE c = " " -> 32
    [] c = "\"" -> 34
    [] c = "," -> 44
    [] c = "0" -> 48
    [] c = "1" -> 49
    [] c = "2" -> 50
    [] c = "3" -> 51
    [] c = "4" -> 52
    [] c = ":" -> 58
    [] c = "A" -> 65
    [] c = "B" -> 66
    [] c = "[" -> 91
    [] c = "\\" -> 92
    [] c = "]" -> 93
    [] c = "_" -> 95
    [] c = "a" -> 97
    [] c = "b" -> 98
    [] c = "c" -> 99
    [] c = "g" -> 103
    [] c = "i" -> 105
    [] c = "j" -> 106
    [] c = "k" -> 107
    [] c = "m" -> 109
    [] c = "n" -> 110
    [] c = "s" -> 115
    [] c = "x" -> 120
    [] c = "y" -> 121
    [] c = "z" -> 122

\* Order of the default Array.prototype.sort(): strings compared by code units.
RECURSIVE CodeUnitLess(_, _)
CodeUnitLess(a, b) ==
  IF b = <<>> THEN FALSE
  ELSE IF a = <<>> THEN TRUE
  ELSE IF Head(a) # Head(b) THEN CodeUnit(Head(a)) < CodeUnit(Head(b))
  ELSE CodeUnitLess(Tail(a), Tail(b))

\* Primary collation weight of a character (CLDR root order: whitespace,
\* punctuation, digits, letters; a letter and its capital share a weight).
CollationPrimary(c) ==
  CASE c = " " -> 1
    [] c = "_" -> 2
    [] c = "," -> 3
    [] c = ":" -> 4
    [] c = "\"" -> 5
    [] c = "[" -> 6
    [] c = "]" -> 7
    [] c = "\\" -> 8
    [] c = "0" -> 10
    [] c = "1" -> 11
    [] c = "2" -> 12
    [] c = "3" -> 13
    [] c = "4" -> 14
    [] c = "a" -> 21
    [] c = "A" -> 21
    [] c = "b" -> 22
    [] c = "B" -> 22
    [] c = "c" -> 23
    [] c = "g" -> 27
    [] c = "i" -> 29
    [] c = "j" -> 30
    [] c = "k" -> 31
    [] c = "m" -> 33
    [] c = "n" -> 34
    [] c = "s" -> 39
    [] c = "x" -> 44
    [] c = "y" -> 45
    [] c = "z" -> 46

\* Tertiary (case) weight: lower case sorts before upper case.
CollationTertiary(c) == IF c \in {"A", "B"} THEN 1 ELSE 0

\* Three-way comparison of two strings by primary weights.
RECURSIVE ComparePrimary(_, _)
ComparePrimary(a, b) ==
  IF a = <<>> /\ b = <<>> THEN 0
  ELSE IF a = <<>> THEN -1
  ELSE IF b = <<>> THEN 1
  ELSE IF CollationPrimary(Head(a)) < CollationPrimary(Head(b)) THEN -1
  ELSE IF CollationPrimary(Head(a)) > CollationPrimary(Head(b)) THEN 1
  ELSE ComparePrimary(Tail(a), Tail(b))

\* Three-way comparison by case of two strings with equal primary weights.
RECURSIVE CompareTertiary(_, _)
CompareTertiary(a, b) ==
  IF a = <<>> \/ b = <<>> THEN 0
  ELSE IF CollationTertiary(Head(a)) < CollationTertiary(Head(b)) THEN -1
  ELSE IF CollationTertiary(Head(a)) > CollationTertiary(Head(b)) THEN 1
  ELSE CompareTertiary(Tail(a), Tail(b))

\* String.prototype.localeCompare: primary weights decide first, case breaks
\* the remaining ties.
LocaleCompare(a, b) ==
  IF ComparePrimary(a, b) # 0 THEN ComparePrimary(a, b) ELSE CompareTertiary(a, b)

\* Array.prototype.sort() of strings: stable insertion by code unit order.
RECURSIVE InsertKey(_, _)
InsertKey(x, s) ==
  IF s = <<>> THEN <<x>>
  ELSE IF CodeUnitLess(x, Head(s)) THEN <<x>> \o s
  ELSE <<Head(s)>> \o InsertKey(x, Tail(s))

RECURSIVE SortStrings(_)
SortStrings(s) ==
  IF s = <<>> THEN <<>>
  ELSE InsertKey(s[Len(s)], SortStrings(SubSeq(s, 1, Len(s) - 1)))

(***************************************************************************)
(* Interactions (core/types.ts) and composite keys                         *)
(***************************************************************************)
Str(c) == <<c>>

MISSING == <<"_", "_", "m", "i", "s", "s", "i", "n", "g", "_", "_">>

\* An Interaction: dimensions is optional (hasDimensions = FALSE when the
\* field is absent), tags absent is the empty list. ref is the identity of
\* the object (no code reads it); two objects may have the same content.
Interaction(ref, id, text, hasDims, dims, tags) ==
  [ref |-> ref, interactionId |-> id, input |-> text, hasDimensions |-> hasDims,
   dimensions |-> dims, tags |-> tags]

NoDimensions == [k \in {} |-> <<>>]

\* JsonEscape that copies the string as it is.
JsonEscapeNothing(s) == s

\* JSON.stringify of one string: quotes and backslashes are escaped.
RECURSIVE JsonEscape(_)
JsonEscape(s) ==
  IF s = <<>> THEN <<>>
  ELSE (IF Head(s) \in {"\"", "\\"} THEN <<"\\", Head(s)>> ELSE <<Head(s)>>)
       \o JsonEscape(Tail(s))

JsonString(s) == <<"\"">> \o JsonEscape(s) \o <<"\"">>

RECURSIVE JsonJoin(_)
JsonJoin(values) ==
  IF values = <<>> THEN <<>>
  ELSE IF Len(values) = 1 THEN JsonString(values[1])
  ELSE JsonString(Head(values)) \o <<",">> \o JsonJoin(Tail(values))

\* JSON.stringify of an array of strings.
JsonStringify(values) == <<"[">> \o JsonJoin(values) \o <<"]">>

\* interaction.dimensions?.[k] ?? "__missing__"
DimensionOrMissing(interaction, k) ==
  IF interaction.hasDimensions /\ k \in DOMAIN interaction.dimensions
  THEN interaction.dimensions[k] ELSE MISSING

buildCompositeKey(interaction, keys) ==
  JsonStringify([i \in 1..Len(keys) |-> DimensionOrMissing(interaction, keys[i])])

(***************************************************************************)
(* IEEE-754 double arithmetic of the share computation                     *)
(*   exact = (size / totalSize) * remaining; frac = exact - floor(exact)   *)
(* A positive double is [bits, exp]: a 53-bit significand, most           *)
(* significant bit first, times 2^exp.                                     *)
(***************************************************************************)
Precision == 53

\* Width of the digit groups the long division and the multiplication work on
\* (keeps every intermediate product below 2^31).
ChunkWidth == 12

Zeros(n) == [i \in 1..n |-> 0]

\* Position of the first and of the last 1 of a bit sequence holding a 1.
FirstOne(b) == CHOOSE i \in 1..Len(b) : b[i] = 1 /\ \A j \in 1..(i - 1) : b[j] = 0

LastOne(b) == CHOOSE i \in 1..Len(b) : b[i] = 1 /\ \A j \in (i + 1)..Len(b) : b[j] = 0

StripLeadingZeros(b) == IF 1 \in Range(b) THEN SubSeq(b, FirstOne(b), Len(b)) ELSE <<>>

StripTrailingZeros(b) == IF 1 \in Range(b) THEN SubSeq(b, 1, LastOne(b)) ELSE <<>>

\* The w-digit binary form of n < 2^w, most significant digit first.
ToBits(n, w) == [i \in 1..w |-> (n \div (2 ^ (w - i))) % 2]

\* The number a short bit sequence stands for.
RECURSIVE BitsNat(_)
BitsNat(b) ==
  IF b = <<>> THEN 0 ELSE 2 * BitsNat(SubSeq(b, 1, Len(b) - 1)) + b[Len(b)]

\* b + 1 on bit sequences (the result is one bit longer when b is all ones).
IncBits(b) ==
  IF \A i \in 1..Len(b) : b[i] = 1 THEN <<1>> \o Zeros(Len(b))
  ELSE LET z == CHOOSE i \in 1..Len(b) : b[i] = 0 /\ \A j \in (i + 1)..Len(b) : b[j] = 1
       IN [i \in 1..Len(b) |-> IF i < z THEN b[i] ELSE IF i = z THEN 1 ELSE 0]

\* Round the exact value b * 2^exp (b starts with 1) to the nearest double,
\* ties to even.
RoundToDouble(b, exp) ==
  IF Len(b) <= Precision
  THEN [bits |-> b \o Zeros(Precision - Len(b)), exp |-> exp - (Precision - Len(b))]
  ELSE LET kept == SubSeq(b, 1, Precision)
           rest == SubSeq(b, Precision + 1, Len(b))
           drop == Len(rest)
           tailSet == \E i \in 2..drop : rest[i] = 1
           up == rest[1] = 1 /\ (tailSet \/ kept[Precision] = 1)
           r == IF up THEN IncBits(kept) ELSE kept
       IN IF Len(r) > Precision
          THEN [bits |-> SubSeq(r, 1, Precision), exp |-> exp + drop + 1]
          ELSE [bits |-> r, exp |-> exp + drop]

\* Long division: the first n * ChunkWidth binary digits of rem / d after the
\* point (0 < rem < d), and the remainder left.
RECURSIVE DivDigits(_, _, _)
DivDigits(rem, d, n) ==
  IF n = 0 THEN [digits |-> <<>>, rem |-> rem]
  ELSE LET scaled == rem * (2 ^ ChunkWidth)
           more == DivDigits(scaled % d, d, n - 1)
       IN [digits |-> ToBits(scaled \div d, ChunkWidth) \o more.digits,
           rem |-> more.rem]

\* The double a / b for integers 0 < a <= b < 2^ChunkWidth.
DoubleDiv(a, b) ==
  IF a = b THEN RoundToDouble(<<1>>, 0)
  ELSE LET q == DivDigits(a, b, 6)
           lead == FirstOne(q.digits)
           last == lead + Precision
           sticky == IF q.rem # 0 \/ \E i \in (last + 1)..Len(q.digits) : q.digits[i] = 1
                     THEN 1 ELSE 0
       IN RoundToDouble(Append(SubSeq(q.digits, lead, last), sticky), -(last + 1))

\* b * m + carry on bit sequences, m a natural number below 2^ChunkWidth.
RECURSIVE MulBits(_, _, _)
MulBits(b, m, carry) ==
  IF b = <<>> THEN StripLeadingZeros(ToBits(carry, 2 * ChunkWidth))
  ELSE LET w == IF Len(b) < ChunkWidth THEN Len(b) ELSE ChunkWidth
           v == BitsNat(SubSeq(b, Len(b) - w + 1, Len(b))) * m + carry
       IN MulBits(SubSeq(b, 1, Len(b) - w), m, v \div (2 ^ w)) \o ToBits(v % (2 ^ w), w)

\* The double x * m for a double x and an integer m > 0.
DoubleMulInt(x, m) == RoundToDouble(StripLeadingZeros(MulBits(x.bits, m, 0)), x.exp)

\* Math.floor of a positive double (small enough to be an integer of the model).
DoubleFloor(x) ==
  IF x.exp >= 0 THEN BitsNat(StripLeadingZeros(x.bits)) * (2 ^ x.exp)
  ELSE IF Precision + x.exp <= 0 THEN 0
  ELSE BitsNat(SubSeq(x.bits, 1, Precision + x.exp))

\* x - Math.floor(x), exact in double arithmetic: the binary digits after the
\* point, without trailing zeros (<<>> is 0).
DoubleFrac(x) ==
  IF x.exp >= 0 THEN <<>>
  ELSE IF Precision + x.exp <= 0
       THEN StripTrailingZeros(Zeros(-(Precision + x.exp)) \o x.bits)
  ELSE StripTrailingZeros(SubSeq(x.bits, Precision + x.exp + 1, Precision))

\* Sign of a - b for two fractions given by their binary digits.
FracCompare(a, b) ==
  LET n == IF Len(a) >= Len(b) THEN Len(a) ELSE Len(b)
      pa == a \o Zeros(n - Len(a))
      pb == b \o Zeros(n - Len(b))
  IN IF pa = pb THEN 0
     ELSE LET d == CHOOSE i \in 1..n : pa[i] # pb[i] /\ \A j \in 1..(i - 1) : pa[j] = pb[j]
          IN IF pa[d] < pb[d] THEN -1 ELSE 1

(***************************************************************************)
(* allocateQuotas                                                          *)
(***************************************************************************)
\* sumAllocations(allocations, keys)
RECURSIVE sumAllocations(_, _)
sumAllocations(alloc, keys) ==
  IF keys = <<>> THEN 0 ELSE alloc[Head(keys)] + sumAllocations(alloc, Tail(keys))

\* hasAnyCapacity(groups, keys, allocations)
hasAnyCapacity(g, keys, alloc) ==
  \E i \in 1..Len(keys) : alloc[keys[i]] < Len(g[keys[i]])

\* GiveMinimums with the budget forgotten: give = min(minPerGroup, cap).
RECURSIVE GiveMinimumsNoBudget(_, _, _, _, _, _, _)
GiveMinimumsNoBudget(g, eligible, m, minBudget, alloc, used, i) ==
  IF i > Len(eligible) THEN alloc
  ELSE LET k == eligible[i]
           give == Min2(m, Len(g[k]))
       IN GiveMinimumsNoBudget(g, eligible, m, minBudget,
                               [alloc EXCEPT ![k] = give], used + give, i + 1)

\* GiveMinimums stopping after the first group served.
RECURSIVE GiveMinimumsOnce(_, _, _, _, _, _, _)
GiveMinimumsOnce(g, eligible, m, minBudget, alloc, used, i) ==
  IF i > Len(eligible) \/ used >= minBudget \/ used > 0 THEN alloc
  ELSE LET k == eligible[i]
           give == Min2(Min2(m, Len(g[k])), minBudget - used)
       IN GiveMinimumsOnce(g, eligible, m, minBudget,
                           [alloc EXCEPT ![k] = give], used + give, i + 1)

\* The loop of the min-per-group pass over the eligible keys from position i.
RECURSIVE GiveMinimums(_, _, _, _, _, _, _)
GiveMinimums(g, eligible, m, minBudget, alloc, used, i) ==
  IF i > Len(eligible) \/ used >= minBudget THEN alloc
  ELSE LET k == eligible[i]
           cap == Len(g[k])
           give == Min2(Min2(m, cap), minBudget - used)
       IN IF give > 0
          THEN GiveMinimums(g, eligible, m, minBudget,
                            [alloc EXCEPT ![k] = give], used + give, i + 1)
          ELSE GiveMinimums(g, eligible, m, minBudget, alloc, used, i + 1)

\* MinPerGroupPass handing out one unit per group when the floors do not
\* fit the target.
MinPerGroupPassOneEach(g, keys, t, m) ==
  LET zero == [k \in Range(keys) |-> 0]
  IN IF m > 0
     THEN LET eligible == SelectSeq(keys, LAMBDA k : Len(g[k]) > 0)
              maxMinTotal == SumSeq([i \in 1..Len(eligible) |->
                                       Min2(m, Len(g[eligible[i]]))])
              minBudget == Min2(t, maxMinTotal)
          IN GiveMinimums(g, eligible, IF maxMinTotal > t THEN 1 ELSE m,
                          minBudget, zero, 0, 1)
     ELSE zero

\* Pass 1: every key starts at 0, then the coverage floor is handed out.
MinPerGroupPass(g, keys, t, m) ==
  LET zero == [k \in Range(keys) |-> 0]
  IN IF m > 0
     THEN LET eligible == SelectSeq(keys, LAMBDA k : Len(g[k]) > 0)
              maxMinTotal == SumSeq([i \in 1..Len(eligible) |->
                                       Min2(m, Len(g[eligible[i]]))])
              minBudget == Min2(t, maxMinTotal)
          IN GiveMinimums(g, eligible, m, minBudget, zero, 0, 1)
     ELSE zero

TotalSize(g, keys) == SumSeq([i \in 1..Len(keys) |-> Len(g[keys[i]])])

\* MakeShare with the floor not capped at the capacity left.
MakeShareUncapped(g, k, alloc, totalSize, remaining) ==
  LET size == Len(g[k])
      capacityLeft == Max2(0, size - alloc[k])
      exact == DoubleMulInt(DoubleDiv(size, totalSize), remaining)
  IN IF size = 0
     THEN [key |-> k, floor |-> 0, frac |-> <<>>, capacityLeft |-> 0]
     ELSE [key |-> k, floor |-> DoubleFloor(exact), frac |-> DoubleFrac(exact),
           capacityLeft |-> capacityLeft]

\* One Share record per key (shares = groupKeys.map(...)).
MakeShare(g, k, alloc, totalSize, remaining) ==
  LET size == Len(g[k])
      current == alloc[k]
      capacityLeft == Max2(0, size - current)
  IN IF capacityLeft = 0
     THEN [key |-> k, floor |-> 0, frac |-> <<>>, capacityLeft |-> 0]
     ELSE LET exact == DoubleMulInt(DoubleDiv(size, totalSize), remaining)
              fl == DoubleFloor(exact)
          IN [key |-> k, floor |-> Min2(fl, capacityLeft),
              frac |-> DoubleFrac(exact), capacityLeft |-> capacityLeft]

MakeShares(g, keys, alloc, totalSize, remaining) ==
  [i \in 1..Len(keys) |-> MakeShare(g, keys[i], alloc, totalSize, remaining)]

\* "Apply floors": the allocations and the remaining quota after the loop.
RECURSIVE ApplyFloors(_, _, _, _)
ApplyFloors(shares, alloc, remaining, i) ==
  IF i > Len(shares) THEN [allocations |-> alloc, remaining |-> remaining]
  ELSE LET s == shares[i]
       IN IF s.floor > 0
          THEN ApplyFloors(shares, [alloc EXCEPT ![s.key] = @ + s.floor],
                           remaining - s.floor, i + 1)
          ELSE ApplyFloors(shares, alloc, remaining, i + 1)

\* Comparator of shares.sort: higher frac first, ties by key.localeCompare.
ShareBefore(a, b) ==
  IF b.frac # a.frac THEN FracCompare(b.frac, a.frac) < 0
  ELSE LocaleCompare(a.key, b.key) < 0

\* shares.sort(comparator): stable, an element goes after every element it
\* does not precede.
RECURSIVE InsertShare(_, _)
InsertShare(x, s) ==
  IF s = <<>> THEN <<x>>
  ELSE IF ShareBefore(x, Head(s)) THEN <<x>> \o s
  ELSE <<Head(s)>> \o InsertShare(x, Tail(s))

RECURSIVE SortShares(_)
SortShares(s) ==
  IF s = <<>> THEN <<>>
  ELSE InsertShare(s[Len(s)], SortShares(SubSeq(s, 1, Len(s) - 1)))

\* The while loop handing out the leftover units (idx is 0-based).
RECURSIVE DistributeLeftovers(_, _, _, _, _, _)
DistributeLeftovers(g, keys, shares, alloc, remaining, idx) ==
  IF ~(remaining > 0 /\ idx < Len(shares)) THEN alloc
  ELSE LET s == shares[idx + 1]
           size == Len(g[s.key])
           cur == alloc[s.key]
           gives == cur < size
           alloc2 == IF gives THEN [alloc EXCEPT ![s.key] = cur + 1] ELSE alloc
           rem2 == IF gives THEN remaining - 1 ELSE remaining
           idx2 == IF gives THEN idx ELSE idx + 1
           idx3 == IF idx2 >= Len(shares) /\ rem2 > 0 THEN 0 ELSE idx2
       IN IF ~hasAnyCapacity(g, keys, alloc2) THEN alloc2
          ELSE DistributeLeftovers(g, keys, shares, alloc2, rem2, idx3)

\* Pass 2 from the allocations of pass 1. returned = TRUE when the function
\* returns from inside the pass (lines 176, 182 and 216).
ProportionalPass(g, keys, t, alloc) ==
  LET remaining == t - sumAllocations(alloc, keys)
      totalSize == TotalSize(g, keys)
  IN IF remaining <= 0 \/ totalSize = 0
     THEN [allocations |-> alloc, returned |-> TRUE]
     ELSE LET shares == MakeShares(g, keys, alloc, totalSize, remaining)
              floored == ApplyFloors(shares, alloc, remaining, 1)
          IN IF floored.remaining <= 0
             THEN [allocations |-> floored.allocations, returned |-> TRUE]
             ELSE [allocations |->
                     DistributeLeftovers(g, keys, SortShares(shares),
                                         floored.allocations, floored.remaining, 0),
                   returned |-> FALSE]

\* The loop of the final top-up over the keys from position i.
RECURSIVE TopUpLoop(_, _, _, _, _)
TopUpLoop(g, keys, alloc, remaining, i) ==
  IF i > Len(keys) \/ remaining <= 0 THEN alloc
  ELSE LET k == keys[i]
           capLeft == Len(g[k]) - alloc[k]
       IN IF capLeft <= 0 THEN TopUpLoop(g, keys, alloc, remaining, i + 1)
          ELSE LET give == Min2(capLeft, remaining)
               IN TopUpLoop(g, keys, [alloc EXCEPT ![k] = @ + give],
                            remaining - give, i + 1)

\* Pass 3.
FinalTopUp(g, keys, t, alloc) ==
  LET remaining == t - sumAllocations(alloc, keys)
  IN IF remaining > 0 THEN TopUpLoop(g, keys, alloc, remaining, 1) ELSE alloc

\* allocateQuotas returning after the min-per-group pass.
allocateQuotasFloorsOnly(g, keys, t, m) == MinPerGroupPass(g, keys, t, m)

allocateQuotas(g, keys, t, m) ==
  LET p2 == ProportionalPass(g, keys, t, MinPerGroupPass(g, keys, t, m))
  IN IF p2.returned THEN p2.allocations ELSE FinalTopUp(g, keys, t, p2.allocations)
(***************************************************************************)
(* mulberry32: 32-bit words are pairs <<high 16 bits, low 16 bits>>        *)
(***************************************************************************)
Half == 65536

RECURSIVE Xor16(_, _)
Xor16(a, b) ==
  IF a = 0 THEN b
  ELSE IF b = 0 THEN a
  ELSE ((a + b) % 2) + 2 * Xor16(a \div 2, b \div 2)

RECURSIVE Or16(_, _)
Or16(a, b) ==
  IF a = 0 THEN b
  ELSE IF b = 0 THEN a
  ELSE (IF a % 2 = 1 \/ b % 2 = 1 THEN 1 ELSE 0) + 2 * Or16(a \div 2, b \div 2)

\* x ^ y
Xor32(x, y) == <<Xor16(x[1], y[1]), Xor16(x[2], y[2])>>

\* x | c for a constant c below 2^16
OrLow(x, c) == <<x[1], Or16(x[2], c)>>

\* x >>> n for 0 < n < 16
ShiftRight(x, n) ==
  <<x[1] \div (2 ^ n), (x[1] % (2 ^ n)) * (2 ^ (16 - n)) + x[2] \div (2 ^ n)>>

\* x + y modulo 2^32
Add32(x, y) ==
  <<(x[1] + y[1] + (x[2] + y[2]) \div Half) % Half, (x[2] + y[2]) % Half>>

\* The 32-bit product of two 16-bit numbers, as a word.
Mul16(a, b) ==
  LET p1 == (a \div 256) * b
      low == (p1 % 256) * 256 + (a % 256) * b
  IN <<p1 \div 256 + low \div Half, low % Half>>

\* Math.imul(x, y): the low 32 bits of the product.
Imul(x, y) ==
  LET ll == Mul16(x[2], y[2])
  IN <<(ll[1] + Mul16(x[1], y[2])[2] + Mul16(x[2], y[1])[2]) % Half, ll[2]>>

\* seed >>> 0 for a non-negative integer seed of the model
ToUint32(n) == <<(n \div Half) % Half, n % Half>>

\* 0x6d2b79f5
Increment == <<27947, 31221>>

\* One call of the closure mulberry32 returns: the new t and the 32-bit
\* numerator of the value returned (value = out / 4294967296).
Mulberry32Next(t) ==
  LET Result(t2, x2) == [t |-> t2, out |-> Xor32(x2, ShiftRight(x2, 14))]
      SecondMix(t2, x1) ==
        Result(t2, Xor32(x1, Add32(x1, Imul(Xor32(x1, ShiftRight(x1, 7)),
                                            OrLow(x1, 61)))))
      FirstMix(t2) == SecondMix(t2, Imul(Xor32(t2, ShiftRight(t2, 15)), OrLow(t2, 1)))
  IN FirstMix(Add32(t, Increment))

\* Math.floor(r * m) for r = word / 2^32 and a small positive integer m.
FloorTimes(word, m) == (word[1] * m + (word[2] * m) \div Half) \div Half

(***************************************************************************)
(* The random source: mulberry32(seed) or Math.random                      *)
(***************************************************************************)
\* A generator is the closure state t of mulberry32, or, for Math.random, the
\* values it is going to return (tape, read cyclically from position pos).
SeededRng(seed) == [seeded |-> TRUE, t |-> ToUint32(seed), tape |-> <<>>, pos |-> 0]

MathRandom(tape) == [seeded |-> FALSE, t |-> <<0, 0>>, tape |-> tape, pos |-> 0]

\* rng(): the generator after the call and the numerator of the value.
RngNext(rng) ==
  IF rng.seeded
  THEN LET Advanced(r) == [rng |-> [rng EXCEPT !.t = r.t], out |-> r.out]
       IN Advanced(Mulberry32Next(rng.t))
  ELSE [rng |-> [rng EXCEPT !.pos = @ + 1],
        out |-> rng.tape[(rng.pos % Len(rng.tape)) + 1]]

\* MakeRng testing the seed for truthiness: seed ? mulberry32(seed) : Math.random
MakeRngTruthy(opts, tape) ==
  IF opts.hasSeed /\ opts.seed # 0 THEN SeededRng(opts.seed) ELSE MathRandom(tape)

\* const rng = seed !== undefined ? mulberry32(seed) : Math.random
MakeRng(opts, tape) ==
  IF opts.hasSeed THEN SeededRng(opts.seed) ELSE MathRandom(tape)

(***************************************************************************)
(* sampleFromGroup, topUp, stratifiedSample                                *)
(***************************************************************************)
\* Swap that copies arr[j] to arr[i] and loses the old arr[i].
SwapLossy(arr, i, j) == [arr EXCEPT ![i] = arr[j]]

\* [arr[i], arr[j]] = [arr[j], arr[i]]
Swap(arr, i, j) == [arr EXCEPT ![i] = arr[j], ![j] = arr[i]]

\* The partial Fisher-Yates loop from index i (0-based) up to n - 1.
RECURSIVE ShufflePrefix(_, _, _, _)
ShufflePrefix(arr, n, rng, i) ==
  IF i >= n THEN [items |-> arr, rng |-> rng]
  ELSE LET Step(r) ==
             ShufflePrefix(Swap(arr, i + 1, i + FloorTimes(r.out, Len(arr) - i) + 1),
                           n, r.rng, i + 1)
       IN Step(RngNext(rng))

sampleFromGroup(group, n, rng) ==
  IF n >= Len(group) THEN [items |-> group, rng |-> rng]
  ELSE LET Sliced(sh) == [items |-> SubSeq(sh.items, 1, n), rng |-> sh.rng]
       IN Sliced(ShufflePrefix(group, n, rng, 0))

\* The loop of topUp over the keys from position i.
RECURSIVE TopUpGroups(_, _, _, _, _, _, _)
TopUpGroups(g, keys, alloc, need, rng, extras, i) ==
  IF i > Len(keys) \/ need <= 0 THEN [items |-> extras, rng |-> rng]
  ELSE LET group == g[keys[i]]
           current == alloc[keys[i]]
       IN IF current >= Len(group)
          THEN TopUpGroups(g, keys, alloc, need, rng, extras, i + 1)
          ELSE LET Pushed(take, got) ==
                     TopUpGroups(g, keys, [alloc EXCEPT ![keys[i]] = current + take],
                                 need - take, got.rng, extras \o got.items, i + 1)
                   Taken(remainingCandidates, take) ==
                     Pushed(take, sampleFromGroup(remainingCandidates, take, rng))
                   Candidates(remainingCandidates) ==
                     Taken(remainingCandidates, Min2(need, Len(remainingCandidates)))
               IN Candidates(SubSeq(group, current + 1, Len(group)))

topUp(g, keys, alloc, need, rng) ==
  IF need <= 0 THEN [items |-> <<>>, rng |-> rng]
  ELSE TopUpGroups(g, keys, alloc, need, rng, <<>>, 1)

\* MatchesWhere letting an interaction without dimensions through.
MatchesWhereLenient(interaction, where) ==
  interaction.hasDimensions =>
    \A k \in DOMAIN where :
      k \in DOMAIN interaction.dimensions /\ interaction.dimensions[k] = where[k]

\* The predicate of interactions.filter for a where clause with a key.
MatchesWhere(interaction, where) ==
  /\ interaction.hasDimensions
  /\ \A k \in DOMAIN where :
       k \in DOMAIN interaction.dimensions /\ interaction.dimensions[k] = where[k]

\* Lines 55-65.
FilterWhere(ixs, opts) ==
  IF opts.hasWhere /\ DOMAIN opts.where # {}
  THEN SelectSeq(ixs, LAMBDA x : MatchesWhere(x, opts.where))
  ELSE ixs

\* Array.from(groups.keys()): the composite keys in order of first appearance.
RECURSIVE KeysInInsertionOrder(_, _, _)
KeysInInsertionOrder(filtered, by, seen) ==
  IF filtered = <<>> THEN seen
  ELSE LET key == buildCompositeKey(Head(filtered), by)
       IN KeysInInsertionOrder(Tail(filtered), by,
            IF key \in Range(seen) THEN seen ELSE Append(seen, key))

\* group.sort((a, b) => a.interactionId.localeCompare(b.interactionId)), stable.
RECURSIVE InsertById(_, _)
InsertById(x, s) ==
  IF s = <<>> THEN <<x>>
  ELSE IF LocaleCompare(x.interactionId, Head(s).interactionId) < 0 THEN <<x>> \o s
  ELSE <<Head(s)>> \o InsertById(x, Tail(s))

RECURSIVE SortById(_)
SortById(s) ==
  IF s = <<>> THEN <<>>
  ELSE InsertById(s[Len(s)], SortById(SubSeq(s, 1, Len(s) - 1)))

\* The groups map after grouping (lines 70-76) and sorting (lines 81-85).
GroupsOf(filtered, by) ==
  [key \in Range(KeysInInsertionOrder(filtered, by, <<>>)) |->
     SortById(SelectSeq(filtered, LAMBDA x : buildCompositeKey(x, by) = key))]

\* SampleGroups putting the items of each group before those drawn so far.
RECURSIVE SampleGroupsPrepending(_, _, _, _, _, _)
SampleGroupsPrepending(g, keys, alloc, rng, sampled, i) ==
  IF i > Len(keys) THEN [items |-> sampled, rng |-> rng]
  ELSE LET count == alloc[keys[i]]
       IN IF count <= 0 THEN SampleGroupsPrepending(g, keys, alloc, rng, sampled, i + 1)
          ELSE LET Pushed(got) ==
                     SampleGroupsPrepending(g, keys, alloc, got.rng, got.items \o sampled, i + 1)
               IN Pushed(sampleFromGroup(g[keys[i]], count, rng))

\* The per-group draws (lines 97-105) over the keys from position i.
RECURSIVE SampleGroups(_, _, _, _, _, _)
SampleGroups(g, keys, alloc, rng, sampled, i) ==
  IF i > Len(keys) THEN [items |-> sampled, rng |-> rng]
  ELSE LET count == alloc[keys[i]]
       IN IF count <= 0 THEN SampleGroups(g, keys, alloc, rng, sampled, i + 1)
          ELSE LET Pushed(got) ==
                     SampleGroups(g, keys, alloc, got.rng, sampled \o got.items, i + 1)
               IN Pushed(sampleFromGroup(g[keys[i]], count, rng))

\* options.minPerGroup with its default of 1.
MinPerGroupOf(opts) == IF opts.hasMinPerGroup THEN opts.minPerGroup ELSE 1

\* Everything stratifiedSample computes; sampled is what it returns.
SampleRun(ixs, opts, rng0) ==
  LET Trimmed(filtered, g, keys, t, alloc, drawn, extras, all) ==
        [filtered |-> filtered, groups |-> g, groupKeys |-> keys, allocations |-> alloc,
         drawn |-> Len(drawn), toppedUp |-> Len(extras),
         sampled |-> IF Len(all) > t THEN SubSeq(all, 1, t) ELSE all]
      ToppedUp(filtered, g, keys, t, alloc, drawn, extras) ==
        Trimmed(filtered, g, keys, t, alloc, drawn, extras, drawn \o extras)
      Drawn(filtered, g, keys, t, alloc, drawn) ==
        ToppedUp(filtered, g, keys, t, alloc, drawn.items,
                 IF Len(drawn.items) < t
                 THEN topUp(g, keys, alloc, t - Len(drawn.items), drawn.rng).items
                 ELSE <<>>)
      Allocated(filtered, g, keys, t, alloc) ==
        Drawn(filtered, g, keys, t, alloc, SampleGroups(g, keys, alloc, rng0, <<>>, 1))
      Grouped(filtered, g, keys, t) ==
        Allocated(filtered, g, keys, t, allocateQuotas(g, keys, t, MinPerGroupOf(opts)))
      Filtered(filtered) ==
        IF opts.n <= 0 \/ Len(filtered) = 0
        THEN [filtered |-> filtered, groups |-> <<>>, groupKeys |-> <<>>, allocations |-> <<>>,
              drawn |-> 0, toppedUp |-> 0, sampled |-> <<>>]
        ELSE Grouped(filtered, GroupsOf(filtered, opts.by),
                     SortStrings(KeysInInsertionOrder(filtered, opts.by, <<>>)),
                     Min2(opts.n, Len(filtered)))
  IN Filtered(FilterWhere(ixs, opts))

stratifiedSample(ixs, opts, rng0) == SampleRun(ixs, opts, rng0).sampled

(***************************************************************************)
(* Inputs of the sampling runs                                             *)
(***************************************************************************)
DimK == Str("k")

\* Arrays of at most MaxItems objects; object i is the i-th of the array.
Collections ==
  LET \* The interactions the collections are made of: two share an id and differ
      \* in content, the third has no dimensions and an id that sorts after "a" by
      \* localeCompare and before it by code units.
      ItemKinds ==
        { Interaction(0, Str("a"), Str("a"), TRUE, [k \in {DimK} |-> Str("x")], <<>>),
          Interaction(0, Str("a"), Str("b"), TRUE, [k \in {DimK} |-> Str("y")], <<>>),
          Interaction(0, Str("B"), Str("c"), FALSE, NoDimensions, <<>>) }
  IN UNION { { [i \in 1..n |-> [c[i] EXCEPT !.ref = i]] : c \in [1..n -> ItemKinds] }
             : n \in 0..MaxItems }

OptionsSet ==
  LET \* where: absent, {} and {k: "x"}.
      WhereChoices ==
        { [hasWhere |-> FALSE, where |-> NoDimensions],
          [hasWhere |-> TRUE, where |-> NoDimensions],
          [hasWhere |-> TRUE, where |-> [k \in {DimK} |-> Str("x")]] }
      \* seed: absent, 0 or 42.
      SeedChoices ==
        {[hasSeed |-> FALSE, seed |-> 0]} \cup {[hasSeed |-> TRUE, seed |-> sd] : sd \in {0, 42}}
      \* minPerGroup: absent, 0 or MaxMin.
      MinChoices ==
        {[hasMinPerGroup |-> FALSE, minPerGroup |-> 0]}
        \cup {[hasMinPerGroup |-> TRUE, minPerGroup |-> m] : m \in {0, MaxMin}}
  IN { [n |-> n, by |-> by, hasWhere |-> w.hasWhere, where |-> w.where,
        hasSeed |-> sd.hasSeed, seed |-> sd.seed,
        hasMinPerGroup |-> m.hasMinPerGroup, minPerGroup |-> m.minPerGroup] :
       n \in (-1)..MaxN, by \in {<<>>, <<DimK>>}, w \in WhereChoices,
       sd \in SeedChoices, m \in MinChoices }

TapesFor(opts) ==
  LET \* What Math.random returns during one call (a call draws fewer than
      \* MaxItems values), each the smallest value, 0, or the largest, 1 - 2^-32;
      \* a seeded call never reads it.
      Tapes ==
        [1..(IF MaxItems > 1 THEN MaxItems - 1 ELSE 1) -> {<<0, 0>>, <<65535, 65535>>}]
  IN IF MakeRng(opts, <<>>).seeded THEN {<<>>} ELSE Tapes

\* The orders the caller passes the objects in on the second call: the same
\* order, or two neighbours swapped (every order of every collection is a
\* first call of the model, so the swaps generate all permutations).
Reorderings(n) ==
  { [i \in 1..n |-> IF a = 0 THEN i
                    ELSE IF i = a THEN a + 1 ELSE IF i = a + 1 THEN a ELSE i] :
    a \in 0..(IF n > 1 THEN n - 1 ELSE 0) }

NoRun ==
  [filtered |-> <<>>, groups |-> <<>>, groupKeys |-> <<>>, allocations |-> <<>>,
   drawn |-> 0, toppedUp |-> 0, sampled |-> <<>>]

NoDiff == [status |-> "none", error |-> <<>>, diff |-> <<>>]

\* The variables of every part but the one being exercised stay at rest.
Idle(part) ==
  /\ IF part = "alloc" THEN TRUE
     ELSE /\ groups = <<>>
          /\ groupKeys = <<>>
          /\ target = 0
          /\ minPerGroup = 0
          /\ allocations = <<>>
          /\ pc = "idle"
  /\ IF part = "sample" THEN TRUE
     ELSE /\ interactions = <<>>
          /\ options = [n |-> 0, by |-> <<>>, hasWhere |-> FALSE, where |-> NoDimensions,
                        hasSeed |-> FALSE, seed |-> 0, hasMinPerGroup |-> FALSE, minPerGroup |-> 0]
          /\ reordered = <<>>
          /\ firstRun = NoRun
          /\ secondRun = NoRun
          /\ calls = 0
  /\ IF part = "dedupe" THEN TRUE
     ELSE /\ dedupeInput = <<>>
          /\ dedupedOnce = <<>>
          /\ dedupedTwice = <<>>
          /\ dedupeCalls = 0
  /\ IF part = "diff" THEN TRUE
     ELSE /\ store = <<>>
          /\ diffOptions = <<>>
          /\ diffResult = NoDiff
  /\ IF part = "stats" THEN TRUE
     ELSE /\ statsInteractions = <<>>
          /\ statsDimensionKeys = <<>>
          /\ statsResult = <<>>
  /\ IF part = "publish" THEN TRUE
     ELSE /\ datasetsDir = <<>>
          /\ publishCalls = <<>>
  /\ IF part = "shuffle" THEN TRUE
     ELSE shuffle = <<>>
  /\ IF part = "cli" THEN TRUE
     ELSE live = <<>>

(***************************************************************************)
(* allocateQuotas pass by pass                                             *)
(***************************************************************************)
\* Group keys of the allocation runs, in Array.prototype.sort order.
AllocKeyPool ==
  << JsonStringify(<<Str("B")>>), JsonStringify(<<Str("a")>>),
     JsonStringify(<<Str("b")>>), JsonStringify(<<Str("c")>>),
     JsonStringify(<<Str("x")>>) >>

AllocInit ==
  LET GroupOfSize(n) ==
        LET Placeholder == Interaction(0, Str("a"), Str("a"), FALSE, NoDimensions, <<>>)
        IN [i \in 1..n |-> Placeholder]
  IN /\ \E n \in 0..MaxGroups :
          /\ groupKeys = SubSeq(AllocKeyPool, 1, n)
          /\ groups \in [Range(SubSeq(AllocKeyPool, 1, n)) -> {GroupOfSize(z) : z \in 0..MaxSize}]
     /\ target \in 0..MaxTarget
     /\ minPerGroup \in 0..MaxMin
     /\ allocations = [k \in {} |-> 0]
     /\ pc = "min"
     /\ Idle("alloc")

\* Lines 143-171.
AllocMinPass ==
  /\ pc = "min"
  /\ allocations' = MinPerGroupPass(groups, groupKeys, target, minPerGroup)
  /\ pc' = "proportional"
  /\ UNCHANGED <<groups, groupKeys, target, minPerGroup, sampleVars, dedupeVars, diffVars, statsVars, publishVars, shuffle, live>>

\* Lines 173-241.
AllocProportionalPass ==
  /\ pc = "proportional"
  /\ LET p2 == ProportionalPass(groups, groupKeys, target, allocations)
     IN /\ allocations' = p2.allocations
        /\ pc' = IF p2.returned THEN "done" ELSE "topup"
  /\ UNCHANGED <<groups, groupKeys, target, minPerGroup, sampleVars, dedupeVars, diffVars, statsVars, publishVars, shuffle, live>>

\* Lines 243-261.
AllocFinalTopUp ==
  /\ pc = "topup"
  /\ allocations' = FinalTopUp(groups, groupKeys, target, allocations)
  /\ pc' = "done"
  /\ UNCHANGED <<groups, groupKeys, target, minPerGroup, sampleVars, dedupeVars, diffVars, statsVars, publishVars, shuffle, live>>

AllocSpec == AllocInit /\ [][AllocMinPass \/ AllocProportionalPass \/ AllocFinalTopUp]_vars

(***************************************************************************)
(* C1, C2                                                                  *)
(***************************************************************************)
SumOfSizes == TotalSize(groups, groupKeys)

\* C1: the allocations allocateQuotas returns sum to min(target, sum of the
\* group sizes), for every size map, target >= 0 and minPerGroup >= 0.
AllocationSumInvariant ==
  pc = "done" => sumAllocations(allocations, groupKeys) = Min2(target, SumOfSizes)

\* C1 witness: a finished allocation that went through all three passes with
\* a target below the total size and at least two groups.
AllocationSumWitness ==
  /\ pc = "done"
  /\ Len(groupKeys) >= 2
  /\ minPerGroup > 0
  /\ target < SumOfSizes
  /\ sumAllocations(allocations, groupKeys) = target
  /\ \E i \in 1..Len(groupKeys) : allocations[groupKeys[i]] >= 2

\* C2: after each pass and in the returned map, 0 <= allocation(k) <= size(k).
AllocationCapacityInvariant ==
  pc # "min" =>
    \A i \in 1..Len(groupKeys) :
      /\ allocations[groupKeys[i]] >= 0
      /\ allocations[groupKeys[i]] <= Len(groups[groupKeys[i]])

\* C2 witness: the target exceeds what the groups hold and every group ends
\* exactly full.
AllocationCapacityWitness ==
  /\ pc = "done"
  /\ Len(groupKeys) >= 2
  /\ target > SumOfSizes
  /\ \A i \in 1..Len(groupKeys) :
       /\ Len(groups[groupKeys[i]]) > 0
       /\ allocations[groupKeys[i]] = Len(groups[groupKeys[i]])
(***************************************************************************)
(* stratifiedSample called twice on the same objects                       *)
(***************************************************************************)
SampleInit ==
  /\ interactions \in Collections
  /\ options \in OptionsSet
  /\ reordered = interactions
  /\ firstRun = NoRun
  /\ secondRun = NoRun
  /\ calls = 0
  /\ Idle("sample")

\* stratifiedSample(interactions, options)
Sample ==
  /\ calls = 0
  /\ \E tape \in TapesFor(options) :
       firstRun' = SampleRun(interactions, options, MakeRng(options, tape))
  /\ calls' = 1
  /\ UNCHANGED <<interactions, options, reordered, secondRun, allocVars, dedupeVars, diffVars, statsVars, publishVars, shuffle, live>>

\* The caller of a seeded sample reorders the array and calls
\* stratifiedSample again with the same options.
SampleAgain ==
  /\ calls = 1
  /\ options.hasSeed
  /\ \E p \in Reorderings(Len(interactions)), tape \in TapesFor(options) :
       /\ reordered' = [i \in 1..Len(interactions) |-> interactions[p[i]]]
       /\ secondRun' = SampleRun(reordered', options, MakeRng(options, tape))
  /\ calls' = 2
  /\ UNCHANGED <<interactions, options, firstRun, allocVars, dedupeVars, diffVars, statsVars, publishVars, shuffle, live>>

SampleSpec == SampleInit /\ [][Sample \/ SampleAgain]_vars
\* Both parts together: allocateQuotas on its own and inside stratifiedSample.
CoverageSpec == (AllocInit \/ SampleInit) /\ [][AllocMinPass \/ AllocProportionalPass \/ AllocFinalTopUp \/ Sample \/ SampleAgain]_vars

(***************************************************************************)
(* C3 - C7                                                                 *)
(***************************************************************************)
\* An interaction matches `where` when its dimensions equal every key/value
\* pair of it (no `where`, or one without pairs, is matched by everything).
Matching(x) ==
  options.hasWhere =>
    \A k \in DOMAIN options.where :
      x.hasDimensions /\ k \in DOMAIN x.dimensions
        /\ x.dimensions[k] = options.where[k]

MatchCount == Cardinality({i \in 1..Len(interactions) : Matching(interactions[i])})

ExpectedSize == IF options.n >= 1 THEN Min2(options.n, MatchCount) ELSE 0

\* The runs made so far.
Runs == IF calls = 0 THEN {} ELSE IF calls = 1 THEN {firstRun} ELSE {firstRun, secondRun}

\* C3: stratifiedSample returns exactly min(n, number of interactions
\* matching where) items when n >= 1, and none when n <= 0 or nothing matches.
SampleSizeExact == \A run \in Runs : Len(run.sampled) = ExpectedSize

\* C3 witness: n exceeds the number of matching interactions, some
\* interaction does not match, and all the matching ones are returned.
SampleSizeWitness ==
  /\ calls >= 1
  /\ MatchCount >= 2
  /\ MatchCount < Len(interactions)
  /\ options.n > MatchCount
  /\ Len(firstRun.sampled) = MatchCount

ContentsOf(s) == [i \in 1..Len(s) |-> [s[i] EXCEPT !.ref = 0]]

\* C5: with a seed, the call on any reordering of the array returns the same
\* list of interactions (compared by content).
SeededOrderIndependent ==
  (calls = 2 /\ options.hasSeed)
    => ContentsOf(secondRun.sampled) = ContentsOf(firstRun.sampled)

\* Sizes and floors of the groups of an allocation.
FloorOf(g, k, m) == Min2(m, Len(g[k]))

FloorTotal(g, keys, m) == SumSeq([i \in 1..Len(keys) |-> FloorOf(g, keys[i], m)])

\* The composite keys of the interactions matching where.
GroupKeySet ==
  {buildCompositeKey(interactions[i], options.by) :
     i \in {j \in 1..Len(interactions) : Matching(interactions[j])}}

\* C6: when the target is at least the sum of min(minPerGroup, size), every
\* non-empty group is allocated at least min(minPerGroup, size); with the
\* default minPerGroup and n >= number of groups the sample holds an
\* interaction of every group.
CoverageFloor ==
  /\ (pc \in {"proportional", "topup", "done"}
        /\ target >= FloorTotal(groups, groupKeys, minPerGroup))
       => \A i \in 1..Len(groupKeys) :
            allocations[groupKeys[i]] >= FloorOf(groups, groupKeys[i], minPerGroup)
  /\ \A run \in Runs :
       (~options.hasMinPerGroup /\ options.n >= Cardinality(GroupKeySet))
         => \A key \in GroupKeySet :
              \E i \in 1..Len(run.sampled) :
                buildCompositeKey(run.sampled[i], options.by) = key

\* C6 witness (allocator): three non-empty groups, the target equal to the
\* sum of the floors, every group at its floor of at least 2 where it can.
CoverageFloorWitness ==
  /\ pc = "done"
  /\ Len(groupKeys) = 3
  /\ minPerGroup = 2
  /\ target = FloorTotal(groups, groupKeys, minPerGroup)
  /\ \A i \in 1..3 : /\ Len(groups[groupKeys[i]]) >= 1
                     /\ allocations[groupKeys[i]] = FloorOf(groups, groupKeys[i], 2)
  /\ \E i \in 1..3 : Len(groups[groupKeys[i]]) = 1
  /\ \E i \in 1..3 : Len(groups[groupKeys[i]]) = 3

\* C7: every returned item is an object of the input that matches where, and
\* no object is returned twice.
SampleIsSubCollection ==
  \A run \in Runs :
    /\ \A i \in 1..Len(run.sampled) :
         /\ run.sampled[i] \in Range(interactions)
         /\ Matching(run.sampled[i])
    /\ \A i, j \in 1..Len(run.sampled) :
         run.sampled[i].ref = run.sampled[j].ref => i = j

\* C7 witness: where has a pair, the input holds an interaction without
\* dimensions, and a proper part of the matching interactions is returned.
SampleIsSubCollectionWitness ==
  /\ calls >= 1
  /\ options.hasWhere /\ DOMAIN options.where # {}
  /\ \E i \in 1..Len(interactions) : ~interactions[i].hasDimensions
  /\ firstRun.sampled # <<>>
  /\ Len(firstRun.sampled) < MatchCount

(***************************************************************************)
(* dedupeExact (core/analytics/dedupe.ts) and hashInteraction (util/hash.ts) *)
(***************************************************************************)
\* String.prototype.trim: the white space characters of the alphabet.
IsWhiteSpace(c) == c \in {" ", "\t", "\n"}

Trim(s) ==
  IF \A i \in 1..Len(s) : IsWhiteSpace(s[i]) THEN <<>>
  ELSE LET from == CHOOSE i \in 1..Len(s) :
                     ~IsWhiteSpace(s[i]) /\ \A j \in 1..(i - 1) : IsWhiteSpace(s[j])
           to == CHOOSE i \in 1..Len(s) :
                   ~IsWhiteSpace(s[i]) /\ \A j \in (i + 1)..Len(s) : IsWhiteSpace(s[j])
       IN SubSeq(s, from, to)

\* String.prototype.toLowerCase on the alphabet.
LowerCaseOf(c) ==
  CASE c = "A" -> "a"
    [] c = "B" -> "b"
    [] OTHER -> c

ToLowerCase(s) == [i \in 1..Len(s) |-> LowerCaseOf(s[i])]

\* createHash("sha256").update(input).digest("hex"): the digest of a string,
\* taken to be collision-free.
hashString(input) == <<"sha256", input>>

\* hashInteraction without the trim.
hashInteractionUntrimmed(interaction) == hashString(ToLowerCase(interaction.input))

\* hashString(interaction.input.text.trim().toLowerCase())
hashInteraction(interaction) == hashString(ToLowerCase(Trim(interaction.input)))

\* The loop body with the test inverted: if (seen.has(hash)) push, else add.
DedupeStepInverted(st, interaction) ==
  LET hash == hashInteraction(interaction)
  IN IF hash \in st.seen
     THEN [st EXCEPT !.deduped = Append(@, interaction)]
     ELSE [st EXCEPT !.seen = @ \cup {hash}]

\* The loop body: if (!seen.has(hash)) { seen.add(hash); deduped.push(interaction) }
DedupeStep(st, interaction) ==
  LET hash == hashInteraction(interaction)
  IN IF hash \notin st.seen
     THEN [seen |-> st.seen \cup {hash}, deduped |-> Append(st.deduped, interaction)]
     ELSE st

RECURSIVE DedupeLoop(_, _, _)
DedupeLoop(ixs, i, st) ==
  IF i > Len(ixs) THEN st ELSE DedupeLoop(ixs, i + 1, DedupeStep(st, ixs[i]))

dedupeExact(ixs) == DedupeLoop(ixs, 1, [seen |-> {}, deduped |-> <<>>]).deduped

\* Arrays of n objects; object i is the i-th of the array.
DedupeInputs(n) ==
  LET \* The input texts: equal up to case and surrounding white space, with white
      \* space inside, empty, and white space only.
      DedupeKinds ==
        { Interaction(0, id, text, FALSE, NoDimensions, <<>>) :
            id \in {Str("1"), Str("2")},
            text \in { <<"a">>, <<"A">>, <<" ", "a">>, <<"A", "\n">>, <<"a", " ", "b">>,
                       <<"a", "b">>, <<>>, <<" ">> } }
  IN { [i \in 1..n |-> [c[i] EXCEPT !.ref = i]] : c \in [1..n -> DedupeKinds] }

DedupeInit ==
  /\ \E n \in 0..MaxDedupe : dedupeInput \in DedupeInputs(n)
  /\ dedupedOnce = <<>>
  /\ dedupedTwice = <<>>
  /\ dedupeCalls = 0
  /\ Idle("dedupe")

\* deduped = dedupeExact(interactions)
Dedupe ==
  /\ dedupeCalls = 0
  /\ dedupedOnce' = dedupeExact(dedupeInput)
  /\ dedupeCalls' = 1
  /\ UNCHANGED <<dedupeInput, dedupedTwice, allocVars, sampleVars, diffVars, statsVars, publishVars, shuffle, live>>

\* dedupeExact(deduped)
DedupeAgain ==
  /\ dedupeCalls = 1
  /\ dedupedTwice' = dedupeExact(dedupedOnce)
  /\ dedupeCalls' = 2
  /\ UNCHANGED <<dedupeInput, dedupedOnce, allocVars, sampleVars, diffVars, statsVars, publishVars, shuffle, live>>

DedupeSpec == DedupeInit /\ [][Dedupe \/ DedupeAgain]_vars

(***************************************************************************)
(* C8, C9                                                                  *)
(***************************************************************************)
\* The canonical text of an interaction: its input text trimmed and lowercased.
CanonicalText(x) == ToLowerCase(Trim(x.input))

\* The positions whose canonical text occurs at no earlier position.
FirstOccurrences(ixs) ==
  {i \in 1..Len(ixs) :
     \A j \in 1..(i - 1) : CanonicalText(ixs[j]) # CanonicalText(ixs[i])}

\* The subsequence of ixs at the positions of P.
SubsequenceAt(ixs, P) ==
  [k \in 1..Cardinality(P) |->
     ixs[CHOOSE i \in P : Cardinality({j \in P : j < i}) = k - 1]]

\* C8: dedupeExact returns the subsequence of the input made of exactly the
\* interactions whose canonical text occurs at no earlier position.
DedupeFirstWins ==
  dedupeCalls >= 1 =>
    dedupedOnce = SubsequenceAt(dedupeInput, FirstOccurrences(dedupeInput))

\* C8 witness: of three interactions the middle one is dropped for a text
\* that differs from the first one's in case or white space, under another id.
DedupeFirstWinsWitness ==
  /\ dedupeCalls >= 1
  /\ Len(dedupeInput) = 3
  /\ dedupedOnce = <<dedupeInput[1], dedupeInput[3]>>
  /\ dedupeInput[2].input # dedupeInput[1].input
  /\ dedupeInput[2].interactionId # dedupeInput[1].interactionId
  /\ dedupeInput[3].interactionId = dedupeInput[2].interactionId

\* C9: dedupeExact applied to its own result returns that result.
DedupeIdempotent == dedupeCalls = 2 => dedupedTwice = dedupedOnce

\* C9 witness: the first call dropped an interaction and kept two, and the
\* second call returned the same two.
DedupeIdempotentWitness ==
  /\ dedupeCalls = 2
  /\ Len(dedupedOnce) = 2
  /\ Len(dedupeInput) = 3
  /\ dedupedTwice = dedupedOnce

(***************************************************************************)
(* diffDatasets (core/datasets/diff.ts)                                    *)
(***************************************************************************)
\* A line of a .jsonl file: a record the schema accepts (ok, value the
\* record), or one JSON.parse or the schema rejects (value the message).
Line(ok, value) == [ok |-> ok, value |-> value]

NoFile == [exists |-> FALSE, lines |-> <<>>]

FileOf(lines) == [exists |-> TRUE, lines |-> lines]

\* A version directory: interactions.jsonl and labels.jsonl.
VersionDir(interactionsFile, labelsFile) ==
  [exists |-> TRUE, interactions |-> interactionsFile, labels |-> labelsFile]

NoVersionDir == [exists |-> FALSE, interactions |-> NoFile, labels |-> NoFile]

\* name.replace(/\//g, "_")
sanitizeVersionName(name) ==
  [i \in 1..Len(name) |-> IF name[i] = "/" THEN "_" ELSE name[i]]

\* parseJsonl: the accepted records in file order, and an error per rejected line.
RECURSIVE ParseLines(_, _, _)
ParseLines(lines, lineNumber, result) ==
  IF lineNumber > Len(lines) THEN result
  ELSE LET line == lines[lineNumber]
       IN ParseLines(lines, lineNumber + 1,
            IF line.ok
            THEN [result EXCEPT !.items = Append(@, line.value)]
            ELSE [result EXCEPT
                    !.errors = Append(@, [line |-> lineNumber, error |-> line.value])])

parseJsonl(file) == ParseLines(file.lines, 1, [items |-> <<>>, errors |-> <<>>])

\* How a load settles. A promise rejected before the function first awaits
\* is rejected when Promise.all subscribes to it (early); one rejected after
\* the file was read is rejected at a time the reads decide.
Fulfilled(items) == [status |-> "fulfilled", early |-> TRUE, error |-> <<>>, items |-> items]

Rejected(early, error) == [status |-> "rejected", early |-> early, error |-> error, items |-> <<>>]

\* loadInteractions: the records of the Map in the order they were set.
\* path is the directory the file is looked for in, which the message of a
\* missing file shows; the message of a parse failure shows the text of the
\* first error only.
loadInteractions(versionDir, path) ==
  IF ~versionDir.interactions.exists
  THEN Rejected(TRUE, <<"Interactions file not found", path>>)
  ELSE LET result == parseJsonl(versionDir.interactions)
       IN IF Len(result.errors) > 0
          THEN Rejected(FALSE, <<"Failed to parse interactions", result.errors[1].error>>)
          ELSE Fulfilled(result.items)

\* loadLabels: a missing labels.jsonl is an empty Map.
loadLabels(versionDir) ==
  IF ~versionDir.labels.exists THEN Fulfilled(<<>>)
  ELSE LET result == parseJsonl(versionDir.labels)
       IN IF Len(result.errors) > 0
          THEN Rejected(FALSE, <<"Failed to parse labels", result.errors[1].error>>)
          ELSE Fulfilled(result.items)

\* A Map built by map.set(item.interactionId, item) over items: its keys in
\* insertion order, membership, and the value last set for a key.
RECURSIVE MapKeysFrom(_, _)
MapKeysFrom(items, keys) ==
  IF items = <<>> THEN keys
  ELSE MapKeysFrom(Tail(items),
         IF Head(items).interactionId \in Range(keys) THEN keys
         ELSE Append(keys, Head(items).interactionId))

MapKeys(items) == MapKeysFrom(items, <<>>)

MapHas(items, id) == \E i \in 1..Len(items) : items[i].interactionId = id

MapGet(items, id) ==
  items[CHOOSE i \in 1..Len(items) :
          /\ items[i].interactionId = id
          /\ \A j \in (i + 1)..Len(items) : items[j].interactionId # id]

MapValues(items) == [i \in 1..Len(MapKeys(items)) |-> MapGet(items, MapKeys(items)[i])]

\* The number of positions of a sequence holding x.
Occurrences(s, x) == Cardinality({i \in 1..Len(s) : s[i] = x})

\* keysToTrack: dimensionKeys when given and not empty, else the keys of the
\* dimensions of the interactions.
KeysToTrack(values, opts) ==
  IF opts.hasDimensionKeys /\ Len(opts.dimensionKeys) > 0 THEN opts.dimensionKeys
  ELSE LET allKeys == UNION { DOMAIN values[i].dimensions :
                                i \in {j \in 1..Len(values) : values[j].hasDimensions} }
       IN CHOOSE q \in [1..Cardinality(allKeys) -> allKeys] : Range(q) = allKeys

\* computeDimensionDistribution: per tracked key, the count of each value
\* (MISSING where an interaction lacks the key); a key tracked twice is
\* counted twice.
computeDimensionDistribution(values, opts) ==
  LET keysToTrack == KeysToTrack(values, opts)
  IN [key \in Range(keysToTrack) |->
       LET seen == {DimensionOrMissing(values[i], key) : i \in 1..Len(values)}
       IN [value \in seen |->
            Occurrences(keysToTrack, key) *
              Cardinality({i \in 1..Len(values) :
                             DimensionOrMissing(values[i], key) = value})]]

\* computeTagDistribution: the number of occurrences of each tag.
computeTagDistribution(values) ==
  LET allTags == UNION {Range(values[i].tags) : i \in 1..Len(values)}
  IN [tag \in allTags |-> SumSeq([i \in 1..Len(values) |-> Occurrences(values[i].tags, tag)])]

\* distribution[key] ?? 0
CountOrZero(distribution, key) ==
  IF key \in DOMAIN distribution THEN distribution[key] ELSE 0

\* CountDiff with the delta taken the wrong way round: from - to.
CountDiffReversed(fromDist, toDist) ==
  [key \in DOMAIN fromDist \cup DOMAIN toDist |->
     [from |-> CountOrZero(fromDist, key),
      to |-> CountOrZero(toDist, key),
      delta |-> CountOrZero(fromDist, key) - CountOrZero(toDist, key)]]

\* { from, to, delta } of every key of either distribution that passes
\* delta !== 0 || fromCount > 0 || toCount > 0.
CountDiff(fromDist, toDist) ==
  LET kept == {key \in DOMAIN fromDist \cup DOMAIN toDist :
                 LET fromCount == CountOrZero(fromDist, key)
                     toCount == CountOrZero(toDist, key)
                 IN toCount - fromCount # 0 \/ fromCount > 0 \/ toCount > 0}
  IN [key \in kept |->
       [from |-> CountOrZero(fromDist, key),
        to |-> CountOrZero(toDist, key),
        delta |-> CountOrZero(toDist, key) - CountOrZero(fromDist, key)]]

\* PushIf with the membership test negated.
RECURSIVE PushIfInverted(_, _, _)
PushIfInverted(keys, others, wanted) ==
  IF keys = <<>> THEN <<>>
  ELSE (IF (Head(keys) \in Range(others)) # wanted THEN <<Head(keys)>> ELSE <<>>)
         \o PushIfInverted(Tail(keys), others, wanted)

\* The ids of keys that pass the test, in the order of keys.
RECURSIVE PushIf(_, _, _)
PushIf(keys, others, wanted) ==
  IF keys = <<>> THEN <<>>
  ELSE (IF (Head(keys) \in Range(others)) = wanted THEN <<Head(keys)>> ELSE <<>>)
         \o PushIf(Tail(keys), others, wanted)

\* InteractionDiffOf with the three sorts left out.
InteractionDiffUnsorted(fromIds, toIds) ==
  [added |-> PushIf(toIds, fromIds, FALSE),
   removed |-> PushIf(fromIds, toIds, FALSE),
   unchanged |-> PushIf(toIds, fromIds, TRUE)]

\* added, removed and unchanged, each pushed in Set order and then sorted
\* by Array.prototype.sort's default order.
InteractionDiffOf(fromIds, toIds) ==
  [added |-> SortStrings(PushIf(toIds, fromIds, FALSE)),
   removed |-> SortStrings(PushIf(fromIds, toIds, FALSE)),
   unchanged |-> SortStrings(PushIf(toIds, fromIds, TRUE))]

\* `${fromVerdict}->${toVerdict}`
VerdictChange(fromVerdict, toVerdict) == <<fromVerdict, "->", toVerdict>>

\* LabelDiffOf counting the records of the files, not the keys of the Maps.
LabelDiffOfRecords(fromLabels, toLabels, unchanged) ==
  [added |-> Len(SelectSeq(toLabels, LAMBDA l : ~MapHas(fromLabels, l.interactionId))),
   removed |-> Len(SelectSeq(fromLabels, LAMBDA l : ~MapHas(toLabels, l.interactionId))),
   verdictChanges |-> <<>>]

\* LabelDiffOf tallying every id labelled in both versions, in unchanged or not.
LabelDiffOfAnyId(fromLabels, toLabels, unchanged) ==
  LET both == {i \in 1..Len(MapKeys(fromLabels)) :
                 /\ MapHas(toLabels, MapKeys(fromLabels)[i])
                 /\ MapGet(fromLabels, MapKeys(fromLabels)[i]).verdict
                      # MapGet(toLabels, MapKeys(fromLabels)[i]).verdict}
      changeOf(i) == VerdictChange(MapGet(fromLabels, MapKeys(fromLabels)[i]).verdict,
                                   MapGet(toLabels, MapKeys(fromLabels)[i]).verdict)
  IN [added |-> Len(PushIf(MapKeys(toLabels), MapKeys(fromLabels), FALSE)),
      removed |-> Len(PushIf(MapKeys(fromLabels), MapKeys(toLabels), FALSE)),
      verdictChanges |->
        [change \in {changeOf(i) : i \in both} |->
           Cardinality({i \in both : changeOf(i) = change})]]

\* labelDiff: added, removed and the tally of verdict changes.
LabelDiffOf(fromLabels, toLabels, unchanged) ==
  LET both == {i \in 1..Len(unchanged) :
                 /\ MapHas(fromLabels, unchanged[i]) /\ MapHas(toLabels, unchanged[i])
                 /\ MapGet(fromLabels, unchanged[i]).verdict
                      # MapGet(toLabels, unchanged[i]).verdict}
      changeOf(i) == VerdictChange(MapGet(fromLabels, unchanged[i]).verdict,
                                   MapGet(toLabels, unchanged[i]).verdict)
  IN [added |-> Len(PushIf(MapKeys(toLabels), MapKeys(fromLabels), FALSE)),
      removed |-> Len(PushIf(MapKeys(fromLabels), MapKeys(toLabels), FALSE)),
      verdictChanges |->
        [change \in {changeOf(i) : i \in both} |->
           Cardinality({i \in both : changeOf(i) = change})]]

\* The body of diffDatasets after the four loads are fulfilled.
ComputeDiff(opts, fromInteractions, toInteractions, fromLabels, toLabels) ==
  LET DimensionDiffOf(fromDims, toDims) ==
        LET \* fromDims[dimKey] ?? {}
            DistOrEmpty(dims, dimKey) == IF dimKey \in DOMAIN dims THEN dims[dimKey] ELSE [key \in {} |-> 0]
        IN [dimKey \in DOMAIN fromDims \cup DOMAIN toDims |->
              CountDiff(DistOrEmpty(fromDims, dimKey), DistOrEmpty(toDims, dimKey))]
  IN LET ids == InteractionDiffOf(MapKeys(fromInteractions), MapKeys(toInteractions))
     IN [from |-> opts.fromVersion,
         to |-> opts.toVersion,
         interactions |-> ids,
         dimensions |->
           DimensionDiffOf(computeDimensionDistribution(MapValues(fromInteractions), opts),
                           computeDimensionDistribution(MapValues(toInteractions), opts)),
         tags |-> CountDiff(computeTagDistribution(MapValues(fromInteractions)),
                            computeTagDistribution(MapValues(toInteractions))),
         labels |-> LabelDiffOf(fromLabels, toLabels, ids.unchanged)]

Threw(error) == [status |-> "rejected", error |-> error, diff |-> <<>>]

Returned(diff) == [status |-> "fulfilled", error |-> <<>>, diff |-> diff]

\* Promise.all over the loads: the first early rejection in array order,
\* else any of the late rejections, else the values.
PromiseAllErrors(loads) ==
  LET early == {i \in 1..Len(loads) : loads[i].status = "rejected" /\ loads[i].early}
      late == {i \in 1..Len(loads) : loads[i].status = "rejected" /\ ~loads[i].early}
  IN IF early # {}
     THEN {loads[CHOOSE i \in early : \A j \in early : i <= j].error}
     ELSE {loads[i].error : i \in late}

\* diffDatasets loading both versions before looking for their directories.
diffDatasetsLoadFirst(st, opts) ==
  LET fromDir == sanitizeVersionName(opts.fromVersion)
      toDir == sanitizeVersionName(opts.toVersion)
      loads == <<loadInteractions(st[fromDir], fromDir), loadInteractions(st[toDir], toDir),
                 loadLabels(st[fromDir]), loadLabels(st[toDir])>>
      errors == PromiseAllErrors(loads)
  IN IF errors # {} THEN {Threw(e) : e \in errors}
     ELSE {Returned(ComputeDiff(opts, loads[1].items, loads[2].items,
                                loads[3].items, loads[4].items))}

\* The ways diffDatasets(options) can settle on the store.
diffDatasets(st, opts) ==
  LET fromDir == sanitizeVersionName(opts.fromVersion)
      toDir == sanitizeVersionName(opts.toVersion)
  IN IF ~(fromDir \in DOMAIN st /\ st[fromDir].exists)
     THEN {Threw(<<"Dataset version not found", opts.fromVersion>>)}
     ELSE IF ~(toDir \in DOMAIN st /\ st[toDir].exists)
     THEN {Threw(<<"Dataset version not found", opts.toVersion>>)}
     ELSE LET loads == <<loadInteractions(st[fromDir], fromDir), loadInteractions(st[toDir], toDir),
                         loadLabels(st[fromDir]), loadLabels(st[toDir])>>
              errors == PromiseAllErrors(loads)
          IN IF errors # {}
             THEN {Threw(e) : e \in errors}
             ELSE {Returned(ComputeDiff(opts, loads[1].items, loads[2].items,
                                        loads[3].items, loads[4].items))}

(***************************************************************************)
(* Inputs of the diff: two version names and what their directories hold   *)
(***************************************************************************)
V1 == <<"v", "1">>

V2 == <<"v", "/", "2">>

\* The records of interactions.jsonl: ids "2", "10" and "1" (set order,
\* code unit order and numeric order all differ), and a second record of id "2".
DiffKinds ==
  { Interaction(0, Str("2"), Str("a"), TRUE, [k \in {DimK} |-> Str("x")], <<Str("x")>>),
    Interaction(0, <<"1", "0">>, Str("b"), FALSE, NoDimensions, <<>>),
    Interaction(0, Str("1"), Str("c"), TRUE, [k \in {DimK} |-> Str("y")],
                <<Str("x"), Str("y")>>),
    Interaction(0, Str("2"), Str("a"), TRUE, [k \in {DimK} |-> Str("y")], <<>>) }

BadLine == Line(FALSE, <<"Unexpected token">>)

\* interactions.jsonl: missing, at most MaxLines accepted records (no record
\* twice; the two records of id "2" are the repeated id), or a rejected line
\* alone or after an accepted record.
InteractionFiles ==
  {NoFile}
    \cup UNION { {FileOf([i \in 1..n |-> Line(TRUE, r[i])]) :
                    r \in {q \in [1..n -> DiffKinds] :
                             \A a, b \in 1..n : q[a] = q[b] => a = b}}
                  : n \in 0..MaxLines }
    \cup {FileOf(<<BadLine>>)}
    \cup {FileOf(<<Line(TRUE, r), BadLine>>) : r \in {x \in DiffKinds : ~x.hasDimensions}}

\* A record of labels.jsonl.
Label(id, verdict) == Line(TRUE, [interactionId |-> id, verdict |-> verdict])

\* labels.jsonl: missing, labels of interaction "2", of "2" and "1", two
\* labels of "2", or a rejected line.
LabelFiles ==
  { NoFile,
    FileOf(<<Label(Str("2"), "pass")>>),
    FileOf(<<Label(Str("2"), "fail")>>),
    FileOf(<<Label(Str("2"), "pass"), Label(Str("1"), "pass")>>),
    FileOf(<<Label(Str("2"), "fail"), Label(Str("1"), "fail")>>),
    FileOf(<<Label(Str("2"), "pass"), Label(Str("2"), "fail")>>),
    FileOf(<<BadLine>>) }

Stores ==
  LET Versions ==
        {NoVersionDir} \cup {VersionDir(i, l) : i \in InteractionFiles, l \in LabelFiles}
  IN [{sanitizeVersionName(V1), sanitizeVersionName(V2)} -> Versions]

DiffInit ==
  LET \* dimensionKeys: absent, or ["k"].
      DiffOptionsSet ==
        { [fromVersion |-> V1, toVersion |-> V2, hasDimensionKeys |-> FALSE,
           dimensionKeys |-> <<>>],
          [fromVersion |-> V1, toVersion |-> V2, hasDimensionKeys |-> TRUE,
           dimensionKeys |-> <<DimK>>] }
  IN /\ store \in Stores
     /\ diffOptions \in DiffOptionsSet
     /\ diffResult = NoDiff
     /\ Idle("diff")

\* await diffDatasets(options)
Diff ==
  /\ diffResult.status = "none"
  /\ diffOptions # <<>>
  /\ \E settled \in diffDatasets(store, diffOptions) : diffResult' = settled
  /\ UNCHANGED <<store, diffOptions, allocVars, sampleVars, dedupeVars, statsVars, publishVars, shuffle, live>>

DiffSpec == DiffInit /\ [][Diff]_vars

IdentityInit ==
  LET \* diffDatasets asked to compare a version with itself.
      IdentityOptionsSet ==
        { [fromVersion |-> names[1], toVersion |-> names[2], hasDimensionKeys |-> keys # <<>>,
           dimensionKeys |-> keys] :
            names \in {<<V1, V1>>, <<V2, V2>>, <<V2, sanitizeVersionName(V2)>>, <<sanitizeVersionName(V2), V2>>},
            keys \in {<<>>, <<DimK>>} }
  IN /\ store \in Stores
     /\ \E name \in DOMAIN store : store[name] = NoVersionDir
     /\ diffOptions \in IdentityOptionsSet
     /\ diffResult = NoDiff
     /\ Idle("diff")

IdentitySpec == IdentityInit /\ [][Diff]_vars

(***************************************************************************)
(* C10                                                                     *)
(***************************************************************************)
\* The ids of the records of a version's interactions.jsonl.
IdsIn(name) ==
  LET lines == store[sanitizeVersionName(name)].interactions.lines
  IN {lines[i].value.interactionId : i \in 1..Len(lines)}

FromIds == IdsIn(diffOptions.fromVersion)

ToIds == IdsIn(diffOptions.toVersion)

\* Strictly ascending in code unit order.
Ascending(s) == \A i \in 1..(Len(s) - 1) : CodeUnitLess(s[i], s[i + 1])

\* C10: added is the ids of to that are not in from, removed the ids of from
\* that are not in to, unchanged the ids in both; the three are disjoint,
\* added with unchanged is the to ids, removed with unchanged the from ids,
\* and each list is sorted ascending.
InteractionDiffExact ==
  diffResult.status = "fulfilled" =>
    LET d == diffResult.diff.interactions
    IN /\ Range(d.added) = ToIds \ FromIds
       /\ Range(d.removed) = FromIds \ ToIds
       /\ Range(d.unchanged) = FromIds \cap ToIds
       /\ Range(d.added) \cap Range(d.removed) = {}
       /\ Range(d.added) \cap Range(d.unchanged) = {}
       /\ Range(d.removed) \cap Range(d.unchanged) = {}
       /\ Range(d.added) \cup Range(d.unchanged) = ToIds
       /\ Range(d.removed) \cup Range(d.unchanged) = FromIds
       /\ Ascending(d.added) /\ Ascending(d.removed) /\ Ascending(d.unchanged)

\* C10 witness: to lists "2" before "10" and both are added, in the order
\* "10", "2"; from holds another id, which is removed.
InteractionDiffWitness ==
  /\ diffResult.status = "fulfilled"
  /\ diffResult.diff.interactions.added = << <<"1", "0">>, <<"2">> >>
  /\ store[sanitizeVersionName(V2)].interactions.lines[1].value.interactionId = <<"2">>
  /\ diffResult.diff.interactions.removed = << <<"1">> >>

(***************************************************************************)
(* C11 - C17                                                               *)
(***************************************************************************)
\* The lines of a version's interactions.jsonl and labels.jsonl.
InteractionLines(name) == store[sanitizeVersionName(name)].interactions.lines

LabelLines(name) == store[sanitizeVersionName(name)].labels.lines

\* The positions of the records a version holds: of two records with one id
\* the later one.
Kept(lines) ==
  {i \in 1..Len(lines) :
     \A j \in (i + 1)..Len(lines) : lines[j].value.interactionId # lines[i].value.interactionId}

\* The dimension keys counted for a version: the caller's, or the version's own.
TrackedKeys(name) ==
  IF diffOptions.hasDimensionKeys /\ diffOptions.dimensionKeys # <<>>
  THEN Range(diffOptions.dimensionKeys)
  ELSE UNION {DOMAIN InteractionLines(name)[i].value.dimensions :
                i \in {j \in Kept(InteractionLines(name)) :
                         InteractionLines(name)[j].value.hasDimensions}}

\* How many interactions of the version carry the value under the key
\* (MISSING standing for an absent key); 0 for a key the version does not track.
ValueCount(name, key, value) ==
  IF key \notin TrackedKeys(name) THEN 0
  ELSE Cardinality({i \in Kept(InteractionLines(name)) :
                      DimensionOrMissing(InteractionLines(name)[i].value, key) = value})

ValuesSeen(name, key) ==
  IF key \notin TrackedKeys(name) THEN {}
  ELSE {DimensionOrMissing(InteractionLines(name)[i].value, key) :
          i \in Kept(InteractionLines(name))}

\* How many times the tag is attached in the version.
TagCount(name, tag) ==
  LET lines == InteractionLines(name)
      kept == Kept(lines)
  IN Cardinality(UNION {{<<i, j>> : j \in {x \in 1..Len(lines[i].value.tags) :
                                             lines[i].value.tags[x] = tag}} :
                          i \in kept})

TagsSeen(name) ==
  UNION {Range(InteractionLines(name)[i].value.tags) : i \in Kept(InteractionLines(name))}

FromV == diffOptions.fromVersion

ToV == diffOptions.toVersion

RECURSIVE SumOver(_, _, _)
SumOver(entries, values, field) ==
  IF values = {} THEN 0
  ELSE LET v == CHOOSE x \in values : TRUE
       IN entries[v][field] + SumOver(entries, values \ {v}, field)

\* C12: whenever diffDatasets returns, under every key of the dimension diff
\* the from counts add up to the number of interactions of the from version
\* and the to counts to the number of interactions of the to version.
DimensionCountsCoverVersions ==
  diffResult.status = "fulfilled" =>
    \A key \in DOMAIN diffResult.diff.dimensions :
      LET entries == diffResult.diff.dimensions[key]
      IN /\ SumOver(entries, DOMAIN entries, "from")
              = Cardinality(Kept(InteractionLines(FromV)))
         /\ SumOver(entries, DOMAIN entries, "to")
              = Cardinality(Kept(InteractionLines(ToV)))

\* The ids that have a label in a version.
LabelIds(name) ==
  {LabelLines(name)[i].value.interactionId : i \in 1..Len(LabelLines(name))}

\* Both version directories are there and every file that is there parses.
Loadable(name) ==
  LET dir == store[sanitizeVersionName(name)]
  IN /\ dir.exists
     /\ dir.interactions.exists
     /\ \A i \in 1..Len(dir.interactions.lines) : dir.interactions.lines[i].ok
     /\ \A i \in 1..Len(dir.labels.lines) : dir.labels.lines[i].ok

\* C13: whenever diffDatasets returns, labels.added is the number of ids
\* labelled in to and not in from and labels.removed the number labelled in
\* from and not in to; a call on two versions that load returns even when a
\* labels.jsonl is missing, the missing file counting as no label at all.
LabelCountsExact ==
  /\ diffResult.status = "fulfilled" =>
       /\ diffResult.diff.labels.added = Cardinality(LabelIds(ToV) \ LabelIds(FromV))
       /\ diffResult.diff.labels.removed = Cardinality(LabelIds(FromV) \ LabelIds(ToV))
  /\ (diffResult.status # "none" /\ Loadable(FromV) /\ Loadable(ToV)) =>
       diffResult.status = "fulfilled"

\* C13 witness: the to version has no labels.jsonl, the from version labels
\* two ids, and the diff returned counts two removed labels.
LabelCountsWitness ==
  /\ diffResult.status = "fulfilled"
  /\ ~store[sanitizeVersionName(ToV)].labels.exists
  /\ Cardinality(LabelIds(FromV)) = 2
  /\ diffResult.diff.labels.removed = 2
  /\ diffResult.diff.labels.added = 0

Verdicts == {"pass", "fail", "needs_clarification"}

\* The verdict a version holds for an id: the one of its last label.
VerdictOf(name, id) ==
  LabelLines(name)[CHOOSE i \in Kept(LabelLines(name)) :
                     LabelLines(name)[i].value.interactionId = id].value.verdict

\* The ids of both versions' interactions labelled f in from and t in to.
Changed(f, t) ==
  {id \in FromIds \cap ToIds \cap LabelIds(FromV) \cap LabelIds(ToV) :
     VerdictOf(FromV, id) = f /\ VerdictOf(ToV, id) = t}

\* The sum of the tallies of a verdictChanges object.
RECURSIVE SumCounts(_, _)
SumCounts(counts, keys) ==
  IF keys = {} THEN 0
  ELSE LET k == CHOOSE x \in keys : TRUE
       IN counts[k] + SumCounts(counts, keys \ {k})

\* A label of the version names an id none of its interactions has.
DanglingLabel(name) == LabelIds(name) \ IdsIn(name) # {}

\* C14: whenever diffDatasets returns, verdictChanges has a key "f->t" exactly
\* for the pairs of different verdicts some id of both versions' interactions
\* changed between, with the number of those ids; the tallies add up to at
\* most the size of unchanged; and a label naming an id that is not among
\* its version's interactions does not make a call on loadable versions fail.
VerdictChangesExact ==
  /\ diffResult.status = "fulfilled" =>
       LET vc == diffResult.diff.labels.verdictChanges
       IN /\ DOMAIN vc = {VerdictChange(f, t) : <<f, t>> \in
                            {p \in Verdicts \X Verdicts :
                               p[1] # p[2] /\ Changed(p[1], p[2]) # {}}}
          /\ \A f \in Verdicts, t \in Verdicts :
               VerdictChange(f, t) \in DOMAIN vc =>
                 /\ f # t
                 /\ vc[VerdictChange(f, t)] = Cardinality(Changed(f, t))
          /\ SumCounts(vc, DOMAIN vc) <= Len(diffResult.diff.interactions.unchanged)
  /\ (/\ diffResult.status # "none"
      /\ Loadable(FromV) /\ Loadable(ToV)
      /\ (DanglingLabel(FromV) \/ DanglingLabel(ToV))) =>
       diffResult.status = "fulfilled"

\* C14 witness: both versions label id "1" without holding an interaction
\* "1", pass in from and fail in to; id "2" is in both versions and goes
\* from pass to fail; the diff returned tallies one change.
VerdictChangesWitness ==
  /\ diffResult.status = "fulfilled"
  /\ Str("1") \in LabelIds(FromV) \ IdsIn(FromV)
  /\ Str("1") \in LabelIds(ToV) \ IdsIn(ToV)
  /\ VerdictOf(FromV, Str("1")) = "pass" /\ VerdictOf(ToV, Str("1")) = "fail"
  /\ Str("2") \in Changed("pass", "fail")
  /\ diffResult.diff.labels.verdictChanges[VerdictChange("pass", "fail")] = 1

VersionExists(name) == store[sanitizeVersionName(name)].exists

\* C16: a call for a from or to version whose directory is missing is
\* rejected with "Dataset version not found" and the name of the missing
\* version (the from version when both are missing) and returns no diff,
\* whatever the files of the other version hold: no error of a load shows.
MissingVersionFailsFast ==
  (diffResult.status # "none" /\ ~(VersionExists(FromV) /\ VersionExists(ToV))) =>
    /\ diffResult.status = "rejected"
    /\ diffResult.diff = <<>>
    /\ diffResult.error =
         <<"Dataset version not found", IF VersionExists(FromV) THEN ToV ELSE FromV>>

\* C16 witness: the from version is there with an interactions.jsonl that
\* does not parse, the to version is missing, and the call is rejected
\* naming the to version.
MissingVersionWitness ==
  /\ diffResult.status = "rejected"
  /\ VersionExists(FromV) /\ ~VersionExists(ToV)
  /\ InteractionLines(FromV) = <<BadLine>>
  /\ diffResult.error = <<"Dataset version not found", ToV>>

\* A file of the version holds a line that does not parse.
Malformed(name) ==
  \/ \E i \in 1..Len(InteractionLines(name)) : ~InteractionLines(name)[i].ok
  \/ \E i \in 1..Len(LabelLines(name)) : ~LabelLines(name)[i].ok

\* The error shows the name of the version, as given or as its directory.
NamesVersion(error, name) ==
  Len(error) >= 2 /\ error[2] \in {name, sanitizeVersionName(name)}

\* C17: a call on two stored versions of which one holds a record that does
\* not parse is rejected, returns no diff, and its error shows the name of
\* a version holding such a record.
ParseErrorNamesVersion ==
  (/\ diffResult.status # "none"
   /\ VersionExists(FromV) /\ VersionExists(ToV)
   /\ (Malformed(FromV) \/ Malformed(ToV))) =>
    /\ diffResult.status = "rejected"
    /\ diffResult.diff = <<>>
    /\ \E name \in {FromV, ToV} : Malformed(name) /\ NamesVersion(diffResult.error, name)

(***************************************************************************)
(* computeStats (core/analytics/stats.ts)                                  *)
(***************************************************************************)
DimJ == Str("j")

\* extractDimensionKeys: every key of every dimensions object, sorted by
\* Array.prototype.sort (code unit order).
extractDimensionKeys(ixs) ==
  LET keys == UNION { DOMAIN ixs[i].dimensions :
                        i \in {j \in 1..Len(ixs) : ixs[j].hasDimensions} }
  IN SortStrings(CHOOSE q \in [1..Cardinality(keys) -> keys] : Range(q) = keys)

\* computeStats that leaves an interaction without the key out of the key's
\* histogram.
computeStatsPresentOnly(ixs, dimensionKeys) ==
  LET Counted(keysToTrack) ==
        [byDimension |->
           [key \in Range(keysToTrack) |->
              LET having == {i \in 1..Len(ixs) :
                               ixs[i].hasDimensions /\ key \in DOMAIN ixs[i].dimensions}
              IN [value \in {ixs[i].dimensions[key] : i \in having} |->
                    Occurrences(keysToTrack, key) *
                      Cardinality({i \in having : ixs[i].dimensions[key] = value})]],
         tagCounts |-> computeTagDistribution(ixs),
         total |-> Len(ixs)]
  IN Counted(IF Len(dimensionKeys) > 0 THEN dimensionKeys
             ELSE extractDimensionKeys(ixs))

\* computeStats: one histogram per key of keysToTrack (dimensionKeys when
\* given and not empty, else the extracted keys); every interaction adds one
\* to the bucket of dims[key] ?? MISSING each time the key comes up in
\* keysToTrack, and one to the bucket of each of its tags.
computeStats(ixs, dimensionKeys) ==
  LET Counted(keysToTrack) ==
        [byDimension |->
           [key \in Range(keysToTrack) |->
              [value \in {DimensionOrMissing(ixs[i], key) : i \in 1..Len(ixs)} |->
                 Occurrences(keysToTrack, key) *
                   Cardinality({i \in 1..Len(ixs) :
                                  DimensionOrMissing(ixs[i], key) = value})]],
         tagCounts |-> computeTagDistribution(ixs),
         total |-> Len(ixs)]
  IN Counted(IF Len(dimensionKeys) > 0 THEN dimensionKeys
             ELSE extractDimensionKeys(ixs))

\* At most MaxStats interactions, with dimensions absent, empty, holding k,
\* holding k and j, and holding the text of the sentinel itself under k;
\* dimensionKeys omitted (or empty), or a list of distinct keys, one of which
\* no interaction has.
StatsInit ==
  LET kinds ==
        { Interaction(0, Str("a"), Str("a"), FALSE, NoDimensions, <<>>),
          Interaction(0, Str("b"), Str("a"), TRUE, NoDimensions, <<Str("x")>>),
          Interaction(0, Str("c"), Str("a"), TRUE, [k \in {DimK} |-> Str("x")],
                      <<Str("x"), Str("y")>>),
          Interaction(0, Str("d"), Str("a"), TRUE, [k \in {DimK, DimJ} |-> Str("y")],
                      <<Str("y"), Str("y")>>),
          Interaction(0, Str("e"), Str("a"), TRUE, [k \in {DimK} |-> MISSING], <<>>) }
  IN /\ \E n \in 0..MaxStats : statsInteractions \in [1..n -> kinds]
     /\ statsDimensionKeys \in {<<>>, <<DimK>>, <<DimJ, DimK>>, <<Str("z")>>}
     /\ statsResult = <<>>
     /\ Idle("stats")

\* computeStats(interactions, dimensionKeys)
Stats ==
  /\ statsResult = <<>>
  /\ statsResult' = <<computeStats(statsInteractions, statsDimensionKeys)>>
  /\ UNCHANGED <<statsInteractions, statsDimensionKeys, allocVars, sampleVars, dedupeVars,
                 diffVars, publishVars, shuffle, live>>

StatsSpec == StatsInit /\ [][Stats]_vars

(***************************************************************************)
(* Claim C18                                                               *)
(***************************************************************************)
\* The keys computeStats is to track: the caller's, or every key some
\* interaction has.
StatsTracked ==
  IF statsDimensionKeys # <<>> THEN Range(statsDimensionKeys)
  ELSE UNION { DOMAIN statsInteractions[i].dimensions :
                 i \in {j \in 1..Len(statsInteractions) : statsInteractions[j].hasDimensions} }

\* The interactions holding value under key; MISSING stands for no value.
StatsHolding(key, value) ==
  {i \in 1..Len(statsInteractions) :
     LET x == statsInteractions[i]
     IN IF x.hasDimensions /\ key \in DOMAIN x.dimensions
        THEN x.dimensions[key] = value ELSE value = MISSING}

StatsEmptyWitness ==
  /\ statsResult # <<>>
  /\ statsInteractions = <<>>
  /\ DOMAIN statsResult[1].byDimension = {DimJ, DimK}

(***************************************************************************)
(* stratifiedSample over dimension values that hold delimiters             *)
(***************************************************************************)
\* Collections of at most MaxGrouped objects out of interactions whose
\* values under k and j hold quotes, commas and colons (joined by "," the
\* first two give a","b","c both, joined by :: the next two a::b::c both),
\* one without dimensions and one holding the text of the sentinel; by is
\* [], [k], [k, j] or [j, k]; n is 1 or 2 and the seed is 42.
GroupingInit ==
  LET Quoted == <<"a", "\"", ",", "\"", "b">>
      QuotedTail == <<"b", "\"", ",", "\"", "c">>
      Colons == <<"a", ":", ":", "b">>
      ColonsTail == <<"b", ":", ":", "c">>
      Dims(vk, vj) == [k \in {DimK, DimJ} |-> IF k = DimK THEN vk ELSE vj]
      kinds ==
        { Interaction(0, Str("1"), Str("a"), TRUE, Dims(Str("a"), QuotedTail), <<>>),
          Interaction(0, Str("2"), Str("a"), TRUE, Dims(Quoted, Str("c")), <<>>),
          Interaction(0, Str("3"), Str("a"), TRUE, Dims(Str("a"), ColonsTail), <<>>),
          Interaction(0, Str("4"), Str("a"), TRUE, Dims(Colons, Str("c")), <<>>),
          Interaction(0, Str("0"), Str("a"), TRUE, Dims(<<"a", ",", "b">>, Str("c")), <<>>),
          Interaction(0, Str("a"), Str("a"), TRUE, [k \in {DimJ} |-> Str("c")], <<>>),
          Interaction(0, Str("b"), Str("a"), TRUE, Dims(MISSING, Str("c")), <<>>),
          Interaction(0, Str("c"), Str("a"), FALSE, NoDimensions, <<>>) }
  IN /\ \E n \in 0..MaxGrouped :
          interactions \in { [i \in 1..n |-> [c[i] EXCEPT !.ref = i]] : c \in [1..n -> kinds] }
     /\ options \in { [n |-> n, by |-> by, hasWhere |-> FALSE, where |-> NoDimensions,
                       hasSeed |-> TRUE, seed |-> 42,
                       hasMinPerGroup |-> FALSE, minPerGroup |-> 0] :
                      n \in 1..2, by \in {<<>>, <<DimK>>, <<DimK, DimJ>>, <<DimJ, DimK>>} }
     /\ reordered = interactions
     /\ firstRun = NoRun
     /\ secondRun = NoRun
     /\ calls = 0
     /\ Idle("sample")

GroupingSpec == GroupingInit /\ [][Sample \/ SampleAgain]_vars

(***************************************************************************)
(* Claim C19                                                               *)
(***************************************************************************)
\* The values of an interaction under the keys of by, in order; the sentinel
\* stands for a key it does not have.
ValueTuple(x) ==
  [p \in 1..Len(options.by) |->
     IF x.hasDimensions /\ options.by[p] \in DOMAIN x.dimensions
     THEN x.dimensions[options.by[p]] ELSE MISSING]

\* The keys of the groups of a run that hold the object.
GroupsHolding(run, x) ==
  {key \in DOMAIN run.groups : x \in Range(run.groups[key])}

\* C19: in every run of stratifiedSample that gets to the grouping, each
\* interaction is in exactly one group, and two interactions are in the same
\* group if and only if their values under the keys of by, in order and with
\* __missing__ for an absent key, are equal.
GroupingCollisionFree ==
  \A run \in {r \in Runs : Len(r.filtered) > 0 /\ options.n > 0} :
    \A i, j \in 1..Len(run.filtered) :
      LET x == run.filtered[i]
          y == run.filtered[j]
      IN /\ Cardinality(GroupsHolding(run, x)) = 1
         /\ GroupsHolding(run, x) = GroupsHolding(run, y) <=> ValueTuple(x) = ValueTuple(y)

\* Two interactions whose values differ and whose values joined by "," are
\* the same text are in two groups.
GroupingQuoteWitness ==
  /\ calls >= 1
  /\ options.by = <<DimK, DimJ>>
  /\ Len(firstRun.filtered) = 2
  /\ \A i \in 1..2 : DOMAIN firstRun.filtered[i].dimensions = {DimK, DimJ}
  /\ firstRun.filtered[1].dimensions[DimK] = Str("a")
  /\ firstRun.filtered[2].dimensions[DimJ] = Str("c")
  /\ firstRun.filtered[1].dimensions[DimK] \o <<"\"", ",", "\"">> \o firstRun.filtered[1].dimensions[DimJ]
       = firstRun.filtered[2].dimensions[DimK] \o <<"\"", ",", "\"">> \o firstRun.filtered[2].dimensions[DimJ]
  /\ Cardinality(DOMAIN firstRun.groups) = 2

\* An interaction without the key and one holding the text of the sentinel
\* under it are in one group of two.
GroupingMissingWitness ==
  /\ calls >= 1
  /\ options.by = <<DimK, DimJ>>
  /\ Len(firstRun.filtered) = 2
  /\ DOMAIN firstRun.filtered[1].dimensions = {DimJ}
  /\ DOMAIN firstRun.filtered[2].dimensions = {DimK, DimJ}
  /\ Cardinality(DOMAIN firstRun.groups) = 1
  /\ \E key \in DOMAIN firstRun.groups : Len(firstRun.groups[key]) = 2

(***************************************************************************)
(* publishDataset (core/datasets/publish.ts)                               *)
(***************************************************************************)
\* publishDataset with the existsSync test on the version directory left out.
publishDatasetOverwriting(disk, opts, now) ==
  LET ids == {opts.interactions[i].interactionId : i \in 1..Len(opts.interactions)}
      unknown == SelectSeq(opts.labels, LAMBDA l : l.interactionId \notin ids)
      Written(stats, version) ==
        [disk |-> [disk EXCEPT ![sanitizeVersionName(opts.name)] =
                     [exists |-> TRUE,
                      dataset |-> <<version>>,
                      interactions |-> <<opts.interactions>>,
                      labels |-> <<opts.labels>>,
                      stats |-> <<stats>>,
                      changelog |-> <<[title |-> version.name, created |-> version.createdAt,
                                       description |-> version.description,
                                       total |-> Len(version.interactionIds)]>>]],
         status |-> "fulfilled", error |-> <<>>, version |-> <<version>>]
      Counted(stats) ==
        Written(stats,
                [name |-> opts.name, createdAt |-> now, description |-> opts.description,
                 interactionIds |-> [i \in 1..Len(opts.interactions) |->
                                       opts.interactions[i].interactionId],
                 stats |-> [byDimension |-> stats.byDimension, tagCounts |-> stats.tagCounts]])
  IN IF Len(unknown) > 0
     THEN [disk |-> disk, status |-> "rejected",
           error |-> <<"Labels reference unknown interactionIds", unknown[1].interactionId>>,
           version |-> <<>>]
     ELSE Counted(computeStats(opts.interactions, <<>>))

\* publishDataset with the validation of the label references left out.
publishDatasetUnvalidated(disk, opts, now) ==
  LET ids == {opts.interactions[i].interactionId : i \in 1..Len(opts.interactions)}
      unknown == <<>>
      Written(stats, version) ==
        [disk |-> [disk EXCEPT ![sanitizeVersionName(opts.name)] =
                     [exists |-> TRUE,
                      dataset |-> <<version>>,
                      interactions |-> <<opts.interactions>>,
                      labels |-> <<opts.labels>>,
                      stats |-> <<stats>>,
                      changelog |-> <<[title |-> version.name, created |-> version.createdAt,
                                       description |-> version.description,
                                       total |-> Len(version.interactionIds)]>>]],
         status |-> "fulfilled", error |-> <<>>, version |-> <<version>>]
      Counted(stats) ==
        Written(stats,
                [name |-> opts.name, createdAt |-> now, description |-> opts.description,
                 interactionIds |-> [i \in 1..Len(opts.interactions) |->
                                       opts.interactions[i].interactionId],
                 stats |-> [byDimension |-> stats.byDimension, tagCounts |-> stats.tagCounts]])
  IN IF Len(unknown) > 0
     THEN [disk |-> disk, status |-> "rejected",
           error |-> <<"Labels reference unknown interactionIds", unknown[1].interactionId>>,
           version |-> <<>>]
     ELSE IF disk[sanitizeVersionName(opts.name)].exists
     THEN [disk |-> disk, status |-> "rejected",
           error |-> <<"Dataset version already exists", opts.name>>, version |-> <<>>]
     ELSE Counted(computeStats(opts.interactions, <<>>))

\* publishDataset: the labels are validated, the statistics counted, and
\* unless the version directory exists it is made and dataset.json,
\* interactions.jsonl, labels.jsonl, stats.json and changelog.md are written
\* into it (a file is <<>> when missing, else <<content>>; of changelog.md
\* the heading lines are kept, the breakdown repeats stats.json). The
\* result is the disk after the call and how the call settled.
publishDataset(disk, opts, now) ==
  LET ids == {opts.interactions[i].interactionId : i \in 1..Len(opts.interactions)}
      unknown == SelectSeq(opts.labels, LAMBDA l : l.interactionId \notin ids)
      Written(stats, version) ==
        [disk |-> [disk EXCEPT ![sanitizeVersionName(opts.name)] =
                     [exists |-> TRUE,
                      dataset |-> <<version>>,
                      interactions |-> <<opts.interactions>>,
                      labels |-> <<opts.labels>>,
                      stats |-> <<stats>>,
                      changelog |-> <<[title |-> version.name, created |-> version.createdAt,
                                       description |-> version.description,
                                       total |-> Len(version.interactionIds)]>>]],
         status |-> "fulfilled", error |-> <<>>, version |-> <<version>>]
      Counted(stats) ==
        Written(stats,
                [name |-> opts.name, createdAt |-> now, description |-> opts.description,
                 interactionIds |-> [i \in 1..Len(opts.interactions) |->
                                       opts.interactions[i].interactionId],
                 stats |-> [byDimension |-> stats.byDimension, tagCounts |-> stats.tagCounts]])
  IN IF Len(unknown) > 0
     THEN [disk |-> disk, status |-> "rejected",
           error |-> <<"Labels reference unknown interactionIds", unknown[1].interactionId>>,
           version |-> <<>>]
     ELSE IF disk[sanitizeVersionName(opts.name)].exists
     THEN [disk |-> disk, status |-> "rejected",
           error |-> <<"Dataset version already exists", opts.name>>, version |-> <<>>]
     ELSE Counted(computeStats(opts.interactions, <<>>))

\* The datasets directory holds no version.
PublishInit ==
  /\ datasetsDir = [dir \in {sanitizeVersionName(V1), sanitizeVersionName(V2)} |->
                      [exists |-> FALSE, dataset |-> <<>>, interactions |-> <<>>,
                       labels |-> <<>>, stats |-> <<>>, changelog |-> <<>>]]
  /\ publishCalls = <<>>
  /\ Idle("publish")

\* await publishDataset(options), one call after the other: the name is
\* "v1", "v/2" or "v_2"; what is published is one interaction, or two with a
\* description and a label, or one with a label of an interaction that is
\* not published. The clock advances from call to call. Each call is
\* recorded with the disk it left behind.
Publish ==
  /\ datasetsDir # <<>>
  /\ Len(publishCalls) < MaxPublish
  /\ \E name \in {V1, V2, sanitizeVersionName(V2)}, content \in 1..3 :
       LET first == Interaction(0, Str("2"), Str("a"), TRUE, [k \in {DimK} |-> Str("x")],
                                <<Str("x")>>)
           second == Interaction(0, Str("1"), Str("b"), FALSE, NoDimensions, <<>>)
           opts == [name |-> name,
                    description |-> IF content = 2 THEN Str("d") ELSE <<>>,
                    interactions |-> IF content = 2 THEN <<first, second>> ELSE <<first>>,
                    labels |-> IF content = 1 THEN <<>>
                               ELSE <<[interactionId |-> Str("1"), verdict |-> "pass"]>>]
           Settled(call) ==
             /\ datasetsDir' = call.disk
             /\ publishCalls' = Append(publishCalls, [options |-> opts, settled |-> call])
       IN Settled(publishDataset(datasetsDir, opts, Len(publishCalls) + 1))
  /\ UNCHANGED <<allocVars, sampleVars, dedupeVars, diffVars, statsVars, shuffle, live>>

PublishSpec == PublishInit /\ [][Publish]_vars

(***************************************************************************)
(* Claim C20                                                               *)
(***************************************************************************)
\* The disk a call found: what the call before it left behind.
DiskBefore(c) ==
  IF c = 1
  THEN [dir \in DOMAIN datasetsDir |->
          [exists |-> FALSE, dataset |-> <<>>, interactions |-> <<>>,
           labels |-> <<>>, stats |-> <<>>, changelog |-> <<>>]]
  ELSE publishCalls[c - 1].settled.disk

\* The calls that published the name: they were fulfilled.
PublishedAt(name) ==
  {c \in 1..Len(publishCalls) :
     publishCalls[c].options.name = name /\ publishCalls[c].settled.status = "fulfilled"}

\* C20: a call of publishDataset that finds the directory of its name on
\* disk is rejected and leaves every file of every version as it was; and
\* after any number of calls, a name that was published was published once,
\* and its directory holds what that call wrote: the interactions and labels
\* it was given and a dataset.json with its name and its creation time.
PublishedWriteOnce ==
  /\ \A c \in 1..Len(publishCalls) :
       DiskBefore(c)[sanitizeVersionName(publishCalls[c].options.name)].exists =>
         /\ publishCalls[c].settled.status = "rejected"
         /\ publishCalls[c].settled.disk = DiskBefore(c)
  /\ \A c \in 1..Len(publishCalls) :
       LET name == publishCalls[c].options.name
           stored == datasetsDir[sanitizeVersionName(name)]
       IN c \in PublishedAt(name) =>
            /\ PublishedAt(name) = {c}
            /\ stored = publishCalls[c].settled.disk[sanitizeVersionName(name)]
            /\ stored.exists
            /\ stored.dataset[1].name = name
            /\ stored.dataset[1].createdAt = c
            /\ stored.interactions = <<publishCalls[c].options.interactions>>
            /\ stored.labels = <<publishCalls[c].options.labels>>

\* "v/2" is published with one interaction; publishing it again with two
\* interactions and publishing "v_2", which has the same directory, are
\* both refused with "Dataset version already exists", and the directory
\* still holds the one interaction.
PublishedWriteOnceWitness ==
  /\ Len(publishCalls) = 3
  /\ publishCalls[1].options.name = V2
  /\ publishCalls[1].settled.status = "fulfilled"
  /\ Len(publishCalls[1].options.interactions) = 1
  /\ publishCalls[2].options.name = V2
  /\ Len(publishCalls[2].options.interactions) = 2
  /\ publishCalls[2].settled.error = <<"Dataset version already exists", V2>>
  /\ publishCalls[3].options.name = sanitizeVersionName(V2)
  /\ publishCalls[3].settled.error = <<"Dataset version already exists", sanitizeVersionName(V2)>>
  /\ Len(datasetsDir[sanitizeVersionName(V2)].interactions[1]) = 1
  /\ datasetsDir[sanitizeVersionName(V2)].dataset[1].createdAt = 1

(***************************************************************************)
(* Claims C22, C23                                                         *)
(***************************************************************************)
\* C22: in the proportional pass, when no group ends the pass at its full
\* capacity, what the pass gives a group (floor share and leftover units)
\* differs from its exact share size / totalSize * remaining by less than 1:
\* the leftover units go to distinct groups, none getting a second unit
\* while a group with spare capacity has none.
LeftoversGoToDistinctGroups ==
  [][(pc = "proportional" /\ pc' # pc) =>
       LET remaining == target - sumAllocations(allocations, groupKeys)
       IN (/\ remaining > 0
           /\ SumOfSizes > 0
           /\ \A i \in 1..Len(groupKeys) :
                allocations'[groupKeys[i]] < Len(groups[groupKeys[i]])) =>
            \A i \in 1..Len(groupKeys) :
              LET k == groupKeys[i]
                  excess == (allocations'[k] - allocations[k]) * SumOfSizes
                              - Len(groups[k]) * remaining
              IN excess < SumOfSizes /\ (0 - excess) < SumOfSizes]_vars

GroupIndex(run, x) ==
  CHOOSE p \in 1..Len(run.groupKeys) : x \in Range(run.groups[run.groupKeys[p]])

\* C24: in what stratifiedSample returns the groups follow one another in
\* the order of the sorted group keys (so the items of a group are
\* contiguous), the group keys ascend in code unit order, and each group has
\* as many items in the result as allocateQuotas allocated to it.
SampleOrderedByGroup ==
  \A run \in {r \in Runs : Len(r.groupKeys) > 0} :
    /\ \A i, j \in 1..Len(run.sampled) :
         i < j => GroupIndex(run, run.sampled[i]) <= GroupIndex(run, run.sampled[j])
    /\ \A p \in 1..(Len(run.groupKeys) - 1) :
         CodeUnitLess(run.groupKeys[p], run.groupKeys[p + 1])
    /\ \A p \in 1..Len(run.groupKeys) :
         Cardinality({i \in 1..Len(run.sampled) : GroupIndex(run, run.sampled[i]) = p})
           = run.allocations[run.groupKeys[p]]

\* Three items are returned, two of the first group and then one of the
\* second.
SampleOrderedWitness ==
  /\ calls >= 1
  /\ Len(firstRun.groupKeys) = 2
  /\ Len(firstRun.sampled) = 3
  /\ firstRun.allocations[firstRun.groupKeys[1]] = 2
  /\ firstRun.allocations[firstRun.groupKeys[2]] = 1
  /\ GroupIndex(firstRun, firstRun.sampled[2]) = 1
  /\ GroupIndex(firstRun, firstRun.sampled[3]) = 2

\* C27: in every run of stratifiedSample that gets to the draws, the
\* per-group draws already give target = min(n, number of filtered
\* interactions) items: topUp adds none and the trim removes none.
SafetyNetNeverActs ==
  \A run \in {r \in Runs : options.n > 0 /\ Len(r.filtered) > 0} :
    /\ run.drawn = Min2(options.n, Len(run.filtered))
    /\ run.toppedUp = 0
    /\ Len(run.sampled) = run.drawn + run.toppedUp

\* Two of three filtered interactions in two groups are asked for, and the
\* draws give the two.
SafetyNetWitness ==
  /\ calls >= 1
  /\ options.n = 2
  /\ Len(firstRun.filtered) = 3
  /\ Len(firstRun.groupKeys) = 2
  /\ firstRun.drawn = 2
  /\ firstRun.toppedUp = 0
  /\ Len(firstRun.sampled) = 2

(***************************************************************************)
(* sampleFromGroup iteration by iteration                                  *)
(***************************************************************************)
\* [...group] with no copy made: the name of the caller's array.
SpreadAliasing(arrays, ref) == [arrays |-> arrays, ref |-> ref]

\* [...group]: a new array with the elements of the one referred to.
Spread(arrays, ref) == [arrays |-> Append(arrays, arrays[ref]), ref |-> Len(arrays) + 1]

\* sampleFromGroup(group, n, rng) is entered: group is array 1 of the heap,
\* of at most MaxItems objects; n is 0 to MaxItems + 1; rng is mulberry32 of
\* a seed or Math.random returning 0, 1/2 or 1 - 2^-32 at each call. given
\* is what the caller's array held at the call; when n < group.length, arr
\* is the copy made at line 293.
ShuffleInit ==
  /\ \E len \in 0..MaxItems, n \in 0..(MaxItems + 1),
        rng \in {SeededRng(0), SeededRng(42)}
                  \cup {MathRandom(tape) :
                          tape \in [1..(IF MaxItems > 1 THEN MaxItems - 1 ELSE 1) ->
                                      {<<0, 0>>, <<32768, 0>>, <<65535, 65535>>}]} :
       LET Entered(copy) ==
             shuffle = [arrays |-> copy.arrays, group |-> 1, arr |-> copy.ref,
                        given |-> [x \in 1..len |-> x], n |-> n, rng |-> rng,
                        rngAtCall |-> rng, i |-> 0, j |-> <<>>, draws |-> 0,
                        result |-> <<>>, pc |-> "loop"]
       IN IF n >= len
          THEN Entered([arrays |-> <<[x \in 1..len |-> x]>>, ref |-> 0])
          ELSE Entered(Spread(<<[x \in 1..len |-> x]>>, 1))
  /\ Idle("shuffle")

\* One iteration of the loop of lines 295-298 (i and j are 0-based).
ShuffleStep ==
  /\ shuffle # <<>>
  /\ shuffle.pc = "loop"
  /\ shuffle.n < Len(shuffle.arrays[shuffle.group])
  /\ shuffle.i < shuffle.n
  /\ LET Swapped(r, j) ==
           shuffle' = [shuffle EXCEPT !.rng = r.rng, !.draws = @ + 1, !.j = <<j>>,
                                      !.arrays[shuffle.arr] = Swap(@, shuffle.i + 1, j + 1),
                                      !.i = @ + 1]
         Drawn(r) ==
           Swapped(r, shuffle.i
                        + FloorTimes(r.out, Len(shuffle.arrays[shuffle.arr]) - shuffle.i))
     IN Drawn(RngNext(shuffle.rng))
  /\ UNCHANGED <<allocVars, sampleVars, dedupeVars, diffVars, statsVars, publishVars, live>>

\* return [...group] (line 291) or return arr.slice(0, n) (line 299).
ShuffleReturn ==
  /\ shuffle # <<>>
  /\ shuffle.pc = "loop"
  /\ IF shuffle.n >= Len(shuffle.arrays[shuffle.group])
     THEN LET Copied(copy) ==
                shuffle' = [shuffle EXCEPT !.arrays = copy.arrays,
                                           !.result = <<copy.arrays[copy.ref]>>,
                                           !.pc = "done"]
          IN Copied(Spread(shuffle.arrays, shuffle.group))
     ELSE /\ shuffle.i >= shuffle.n
          /\ shuffle' = [shuffle EXCEPT
                           !.result = <<SubSeq(shuffle.arrays[shuffle.arr], 1, shuffle.n)>>,
                           !.pc = "done"]
  /\ UNCHANGED <<allocVars, sampleVars, dedupeVars, diffVars, statsVars, publishVars, live>>

ShuffleSpec == ShuffleInit /\ [][ShuffleStep \/ ShuffleReturn]_vars

(***************************************************************************)
(* Claim C25                                                               *)
(***************************************************************************)
\* C25: during and after a call of sampleFromGroup the caller's array holds
\* what it held at the call, every value drawn gives a swap index j with
\* i <= j < length, and at the return: with count >= length the result is
\* the items in their order and the rng was not called; otherwise the result
\* has count items, taken from count distinct positions of the array, and
\* the rng was called count times.
ShuffleSamplesPrefix ==
  shuffle # <<>> =>
    /\ shuffle.arrays[shuffle.group] = shuffle.given
    /\ shuffle.j # <<>> =>
         /\ shuffle.i - 1 <= shuffle.j[1]
         /\ shuffle.j[1] < Len(shuffle.given)
    /\ shuffle.pc = "done" =>
         IF shuffle.n >= Len(shuffle.given)
         THEN /\ shuffle.result = <<shuffle.given>>
              /\ shuffle.draws = 0
              /\ shuffle.rng = shuffle.rngAtCall
         ELSE /\ Len(shuffle.result[1]) = shuffle.n
              /\ \E at \in [1..shuffle.n -> 1..Len(shuffle.given)] :
                   /\ \A a, b \in 1..shuffle.n : at[a] = at[b] => a = b
                   /\ \A a \in 1..shuffle.n : shuffle.result[1][a] = shuffle.given[at[a]]
              /\ shuffle.draws = shuffle.n

\* Two of three items are returned after two draws, the last item first.
ShuffleWitness ==
  /\ shuffle # <<>>
  /\ shuffle.pc = "done"
  /\ Len(shuffle.given) = 3
  /\ shuffle.n = 2
  /\ shuffle.draws = 2
  /\ shuffle.result[1][1] = shuffle.given[3]
  /\ shuffle.arrays[shuffle.group] = shuffle.given

\* Asked for more items than there are: all of them come back, in order.
ShuffleAllWitness ==
  /\ shuffle # <<>>
  /\ shuffle.pc = "done"
  /\ Len(shuffle.given) = 2
  /\ shuffle.n = 3
  /\ shuffle.result = <<shuffle.given>>

(***************************************************************************)
(* Claim C26                                                               *)
(***************************************************************************)
\* The call has a label whose interactionId is the id of none of its
\* interactions.
UnknownLabel(c) ==
  \E l \in 1..Len(publishCalls[c].options.labels) :
    \A i \in 1..Len(publishCalls[c].options.interactions) :
      publishCalls[c].options.interactions[i].interactionId
        # publishCalls[c].options.labels[l].interactionId

\* C26: a call of publishDataset with a label of an interaction that is not
\* among those published is rejected with the error of the label validation
\* and leaves the disk as it found it: no directory made, no file written.
PublishRejectsUnknownLabels ==
  \A c \in 1..Len(publishCalls) :
    UnknownLabel(c) =>
      /\ publishCalls[c].settled.status = "rejected"
      /\ publishCalls[c].settled.error[1] = "Labels reference unknown interactionIds"
      /\ publishCalls[c].settled.version = <<>>
      /\ publishCalls[c].settled.disk = DiskBefore(c)

\* The first call, on an empty datasets directory, has such a label: it is
\* rejected and the directory of its name does not exist afterwards.
PublishRejectsWitness ==
  /\ Len(publishCalls) >= 1
  /\ UnknownLabel(1)
  /\ publishCalls[1].settled.status = "rejected"
  /\ publishCalls[1].settled.error = <<"Labels reference unknown interactionIds", Str("1")>>
  /\ ~datasetsDir[sanitizeVersionName(publishCalls[1].options.name)].exists
  /\ Len(publishCalls) = 1

(***************************************************************************)
(* Claim C28                                                               *)
(***************************************************************************)
\* The entries of two count diffs mirror each other: the same keys, from
\* and to exchanged, delta negated.
Mirrored(d, e) ==
  /\ DOMAIN d = DOMAIN e
  /\ \A key \in DOMAIN d :
       /\ d[key].from = e[key].to
       /\ d[key].to = e[key].from
       /\ d[key].delta = 0 - e[key].delta

\* The diff e is the diff d taken the other way round.
ReverseOf(d, e) ==
  /\ d.from = e.to /\ d.to = e.from
  /\ d.interactions.added = e.interactions.removed
  /\ d.interactions.removed = e.interactions.added
  /\ d.interactions.unchanged = e.interactions.unchanged
  /\ DOMAIN d.dimensions = DOMAIN e.dimensions
  /\ \A dimKey \in DOMAIN d.dimensions : Mirrored(d.dimensions[dimKey], e.dimensions[dimKey])
  /\ Mirrored(d.tags, e.tags)
  /\ d.labels.added = e.labels.removed
  /\ d.labels.removed = e.labels.added
  /\ \A change \in DOMAIN d.labels.verdictChanges :
       /\ VerdictChange(change[3], change[1]) \in DOMAIN e.labels.verdictChanges
       /\ e.labels.verdictChanges[VerdictChange(change[3], change[1])]
            = d.labels.verdictChanges[change]
  /\ \A change \in DOMAIN e.labels.verdictChanges :
       VerdictChange(change[3], change[1]) \in DOMAIN d.labels.verdictChanges

\* C28: when diffDatasets has returned the diff of versions A and B, the
\* call with the two versions exchanged on the same datasets directory
\* returns the mirrored diff: added and removed exchanged, the same
\* unchanged list, from and to exchanged and delta negated in every
\* dimension and tag entry, labels.added and labels.removed exchanged, and
\* the count of "x->y" one way the count of "y->x" the other way.
DiffAntisymmetric ==
  diffResult.status = "fulfilled" =>
    \A settled \in diffDatasets(store, [diffOptions EXCEPT !.fromVersion = diffOptions.toVersion,
                                                           !.toVersion = diffOptions.fromVersion]) :
      settled.status = "fulfilled" /\ ReverseOf(diffResult.diff, settled.diff)

\* A diff with an added, a removed and an unchanged interaction, a tag
\* whose count changed and a changed verdict.
DiffAntisymmetricWitness ==
  /\ diffResult.status = "fulfilled"
  /\ diffResult.diff.interactions.added # <<>>
  /\ diffResult.diff.interactions.removed # <<>>
  /\ diffResult.diff.interactions.unchanged # <<>>
  /\ \E tag \in DOMAIN diffResult.diff.tags : diffResult.diff.tags[tag].delta # 0
  /\ \E dimKey \in DOMAIN diffResult.diff.dimensions :
       \E value \in DOMAIN diffResult.diff.dimensions[dimKey] :
         diffResult.diff.dimensions[dimKey][value].delta # 0
  /\ DOMAIN diffResult.diff.labels.verdictChanges # {}
  /\ diffResult.diff.labels.added + diffResult.diff.labels.removed > 0

(***************************************************************************)
(* The commands on the live store: ingest, sample, publish, export         *)
(***************************************************************************)
MaxCommands == 5

\* SQLiteStore.upsertInteraction: the row of that interactionId takes the
\* columns of the interaction, or a new row is added at the end of the table.
upsertInteraction(rows, interaction) ==
  IF \E r \in 1..Len(rows) : rows[r].interactionId = interaction.interactionId
  THEN [r \in 1..Len(rows) |->
          IF rows[r].interactionId = interaction.interactionId
          THEN [interaction EXCEPT !.ref = 0] ELSE rows[r]]
  ELSE Append(rows, [interaction EXCEPT !.ref = 0])

\* SQLiteStore.getInteractions and getLabels: the rows whose interactionId
\* is one of the ids, as the table holds them now.
getInteractions(rows, interactionIds) ==
  SelectSeq(rows, LAMBDA row : \E i \in 1..Len(interactionIds) :
                                 row.interactionId = interactionIds[i])

\* SQLiteStore.upsertLabel: as upsertInteraction, on the labels table.
upsertLabel(rows, label) ==
  IF \E r \in 1..Len(rows) : rows[r].interactionId = label.interactionId
  THEN [r \in 1..Len(rows) |->
          IF rows[r].interactionId = label.interactionId THEN label ELSE rows[r]]
  ELSE Append(rows, label)

\* What a command leaves behind for the next one to look at.
Ran(command, status, name, opts, out, labels) ==
  [command |-> command, status |-> status, name |-> name, options |-> opts,
   out |-> out, labels |-> labels,
   before |-> [interactions |-> live.interactions, labels |-> live.labels,
               versions |-> live.versions]]

\* An empty store, an empty datasets directory, no sample file.
CliInit ==
  /\ live = [interactions |-> <<>>, labels |-> <<>>, versions |-> <<>>,
             disk |-> [dir \in {sanitizeVersionName(V1), sanitizeVersionName(V2)} |->
                         [exists |-> FALSE, dataset |-> <<>>, interactions |-> <<>>,
                          labels |-> <<>>, stats |-> <<>>, changelog |-> <<>>]],
             sample |-> <<>>,
             last |-> [command |-> "none", status |-> "ok", name |-> <<>>, options |-> <<>>,
                       out |-> <<>>, labels |-> <<>>,
                       before |-> [interactions |-> <<>>, labels |-> <<>>, versions |-> <<>>]],
             commands |-> 0]
  /\ Idle("cli")

\* goldenset ingest of a file with one interaction: id "1" with the prompt
\* "a", id "2" with the prompt "A" (the same prompt to dedupeExact) in
\* another group, or id "1" again with its content changed.
ingestCommand ==
  /\ live # <<>>
  /\ live.commands < MaxCommands
  /\ \E interaction \in
         { Interaction(0, Str("1"), Str("a"), TRUE, [k \in {DimK} |-> Str("x")], <<>>),
           Interaction(0, Str("2"), Str("A"), TRUE, [k \in {DimK} |-> Str("y")], <<>>),
           Interaction(0, Str("1"), Str("b"), TRUE, [k \in {DimK} |-> Str("y")], <<>>) } :
       live' = [live EXCEPT !.interactions = upsertInteraction(live.interactions, interaction),
                            !.last = Ran("ingest", "ok", <<>>, <<>>, <<interaction>>, <<>>),
                            !.commands = live.commands + 1]
  /\ UNCHANGED <<allocVars, sampleVars, dedupeVars, diffVars, statsVars, publishVars, shuffle>>

\* goldenset sample --n N --by k [--where k=y] [--dedupe M] [--seed 42]:
\* every row of the store, deduplicated when the method is "exact", then
\* stratifiedSample with the filter; the sample is written to the --out file.
sampleCommand ==
  /\ live # <<>>
  /\ live.commands < MaxCommands
  /\ \E n \in 1..2, hasWhere \in BOOLEAN, dedupe \in {"exact", "none"}, hasSeed \in BOOLEAN :
       LET opts == [n |-> n, by |-> <<DimK>>, hasWhere |-> hasWhere,
                    where |-> IF hasWhere THEN [k \in {DimK} |-> Str("y")] ELSE NoDimensions,
                    hasSeed |-> hasSeed, seed |-> IF hasSeed THEN 42 ELSE 0,
                    hasMinPerGroup |-> FALSE, minPerGroup |-> 0]
           interactions0 == IF dedupe = "exact" THEN dedupeExact(live.interactions)
                            ELSE live.interactions
           Written(sampled) ==
             live' = [live EXCEPT !.sample = <<sampled>>,
                                  !.last = Ran("sample", "ok", <<>>,
                                               [n |-> n, hasWhere |-> hasWhere, where |-> opts.where,
                                                dedupe |-> dedupe, hasSeed |-> hasSeed],
                                               sampled, <<>>),
                                  !.commands = live.commands + 1]
       IN \E tape \in {t \in TapesFor(opts) : \A i, j \in 1..Len(t) : t[i] = t[j]} :
            Written(stratifiedSample(interactions0, opts, MakeRng(opts, tape)))
  /\ UNCHANGED <<allocVars, sampleVars, dedupeVars, diffVars, statsVars, publishVars, shuffle>>

\* goldenset publish --name NAME --sample FILE --labels FILE, with the
\* sample file the one the last sample command wrote: the labels must be of
\* interactions of the sample, every label is upserted, publishDataset
\* writes the version directory, and the version is inserted in the store.
\* A throw anywhere ends the command with exit code 1.
publishCommand ==
  /\ live # <<>>
  /\ live.commands < MaxCommands
  /\ \E name \in {V1, V2},
        labels \in { <<>>,
                     <<[interactionId |-> Str("1"), verdict |-> "pass"]>>,
                     <<[interactionId |-> Str("1"), verdict |-> "fail"],
                       [interactionId |-> Str("2"), verdict |-> "fail"]>> } :
       LET Exit(st) ==
             live' = [st EXCEPT !.last = Ran("publish", "exit 1", name, <<>>, <<>>, labels),
                                !.commands = live.commands + 1]
           Published(st, settled) ==
             IF settled.status = "rejected" THEN Exit(st)
             ELSE IF \E v \in 1..Len(st.versions) : st.versions[v].name = settled.version[1].name
             THEN Exit([st EXCEPT !.disk = settled.disk])
             ELSE live' = [st EXCEPT !.disk = settled.disk,
                                     !.versions = Append(st.versions, settled.version[1]),
                                     !.last = Ran("publish", "ok", name, <<>>, live.sample[1], labels),
                                     !.commands = live.commands + 1]
           Stored(st) ==
             Published(st, publishDataset(st.disk,
                                          [name |-> name, description |-> <<>>,
                                           interactions |-> live.sample[1], labels |-> labels],
                                          live.commands + 1))
           RECURSIVE Upserted(_, _)
           Upserted(rows, l) ==
             IF l > Len(labels) THEN rows ELSE Upserted(upsertLabel(rows, labels[l]), l + 1)
       IN IF live.sample = <<>> THEN Exit(live)
          ELSE IF \E l \in 1..Len(labels) :
                    \A i \in 1..Len(live.sample[1]) :
                      live.sample[1][i].interactionId # labels[l].interactionId
          THEN Exit(live)
          ELSE Stored([live EXCEPT !.labels = Upserted(live.labels, 1)])
  /\ UNCHANGED <<allocVars, sampleVars, dedupeVars, diffVars, statsVars, publishVars, shuffle>>

\* goldenset export --name NAME --out FILE: the version is looked up in
\* the store by its name, and the rows of its interactionIds and their
\* labels are read from the store and written out.
exportCommand ==
  /\ live # <<>>
  /\ live.commands < MaxCommands
  /\ \E name \in {V1, V2} :
       LET found == SelectSeq(live.versions, LAMBDA v : v.name = name)
       IN live' = [live EXCEPT
                     !.last = IF found = <<>>
                              THEN Ran("export", "exit 1", name, <<>>, <<>>, <<>>)
                              ELSE Ran("export", "ok", name, <<>>,
                                       getInteractions(live.interactions, found[1].interactionIds),
                                       getInteractions(live.labels, found[1].interactionIds)),
                     !.commands = live.commands + 1]
  /\ UNCHANGED <<allocVars, sampleVars, dedupeVars, diffVars, statsVars, publishVars, shuffle>>

CliSpec == CliInit /\ [][ingestCommand \/ sampleCommand \/ publishCommand \/ exportCommand]_vars

(***************************************************************************)
(* Claims C21, C29, C30                                                    *)
(***************************************************************************)
\* C21: whatever was ingested after a version was published, the export
\* command for the version writes out the interactions that were published
\* in it: those of the interactions.jsonl of its directory, same ids, same
\* content.
ExportIsThePublishedSnapshot ==
  (live # <<>> /\ live.last.command = "export"
     /\ \E v \in 1..Len(live.versions) : live.versions[v].name = live.last.name) =>
    /\ live.last.status = "ok"
    /\ Range(live.last.out)
         = Range(live.disk[sanitizeVersionName(live.last.name)].interactions[1])

\* C29: the sample command with exact dedupe and a --where filter returns
\* min(n, number of canonical prompt texts among the stored interactions
\* that match the filter) interactions, and when n is at least that number,
\* one of every such text.
SampleCommandKeepsPrompts ==
  (live # <<>> /\ live.last.command = "sample" /\ live.last.options.dedupe = "exact"
     /\ live.last.options.hasWhere) =>
    LET matching == SelectSeq(live.interactions,
                              LAMBDA x : MatchesWhere(x, live.last.options.where))
        texts == {CanonicalText(matching[i]) : i \in 1..Len(matching)}
    IN /\ Len(live.last.out) = Min2(live.last.options.n, Cardinality(texts))
       /\ live.last.options.n >= Cardinality(texts) =>
            \A text \in texts :
              \E i \in 1..Len(live.last.out) : CanonicalText(live.last.out[i]) = text

\* C30: a publish command that ended with exit code 1 has left the labels
\* and the dataset versions of the store as it found them.
FailedPublishLeavesStore ==
  (live # <<>> /\ live.last.command = "publish" /\ live.last.status = "exit 1") =>
    /\ live.labels = live.last.before.labels
    /\ live.versions = live.last.before.versions

====
